---- MODULE Spec2Model ----
(***************************************************************************)
(* Model of the GCG automation comparison engine (Google Apps Script).     *)
(*                                                                         *)
(* Text that the code inspects character by character (names, group        *)
(* labels, notes, tab names) is a sequence of one-character strings, so    *)
(* that trim, toLowerCase, split and includes are computed, not assumed.   *)
(* Person IDs are opaque and are TLA+ strings; the empty string is an      *)
(* empty cell / a null id (both are falsy in the code).                    *)
(***************************************************************************)
EXTENDS Naturals, Integers, Sequences, FiniteSets, TLC

VARIABLES
    roster,      \* data rows of the 'GCG Members' sheet, in sheet order
    directory,   \* data rows of the latest 'Members - Active' export
    tags,        \* tabs of the latest 'Tags' export, in tab order
    exportData,  \* result of parseRealGCGDataWithGCGMembers of the last run
    changes,     \* result of fixedCompareWithInactiveFiltering of the last run
    phase,       \* "idle" | "compared" | "applied"
    reflects,    \* TRUE once the roster was updated to reflect a ChangeSet
    notInGCGSheet,   \* data rows of the 'Not in a GCG' sheet, in sheet order
    engineCopy,      \* which of the two copies of the family logic that
                     \* comparison-engine.js declares is the one in force
    tagsFileOpens,   \* FALSE when the tags export cannot be opened
    unreadableTabs,  \* indexes of the tabs of the tags export whose data
                     \* range cannot be read
    excludedIds,     \* result of getExcludedPersonIds of the last run
    representatives, \* result of calculateFamilyRepresentatives of the last run
    notInGCGChanges, \* result of calculateNotInGCGChangesWithFamilyLogic
    text,            \* a group label or a note handed to a text function
    textResult,      \* what the text function returned for it
    sheetValues,     \* the values of a sheet handed to a reader: rows of cells
    inactiveFile,    \* the inactive-members export: found or not, and its rows
    parsed,          \* what the reader returned: its result, or the error raised
    previewSheet,    \* TRUE when the 'Breeze Update Preview' sheet exists
    dialogs,         \* titles of the dialogs applyUpdatesWithConfirmation
                     \* has shown, in order
    answers,         \* the button each closed dialog was answered with
    summary          \* the ChangeSet counted in the 'Review Changes' dialog

\* the state of the 'Not in a GCG' comparison
notInGCGVars ==
    <<notInGCGSheet, engineCopy, tagsFileOpens, unreadableTabs, excludedIds,
      representatives, notInGCGChanges>>

\* the state of the functions that are run on an input of their own
textVars == <<text, textResult, sheetValues, inactiveFile, parsed>>

\* the state of the confirmation flow
flowVars == <<previewSheet, dialogs, answers, summary>>

vars ==
    <<roster, directory, tags, exportData, changes, phase, reflects,
      notInGCGVars, textVars, flowVars>>

----------------------------------------------------------------------------
(* Bounds of the model.                                                    *)

MaxRoster == 2

----------------------------------------------------------------------------
(* JavaScript string primitives on character sequences.                    *)

UpperChars == <<"A","B","C","D","E","F","G","H","I","J","K","L","M",
                "N","O","P","Q","R","S","T","U","V","W","X","Y","Z">>
LowerChars == <<"a","b","c","d","e","f","g","h","i","j","k","l","m",
                "n","o","p","q","r","s","t","u","v","w","x","y","z">>

ToLowerChar(c) ==
    IF \E i \in 1..Len(UpperChars) : UpperChars[i] = c
    THEN LowerChars[CHOOSE i \in 1..Len(UpperChars) : UpperChars[i] = c]
    ELSE c

\* String.prototype.toLowerCase
ToLowerCase(s) == [i \in 1..Len(s) |-> ToLowerChar(s[i])]

\* String.prototype.indexOf from position i (1-based); 0 when sub does not occur
RECURSIVE IndexOfFrom(_, _, _)
IndexOfFrom(s, sub, i) ==
    IF i + Len(sub) - 1 > Len(s) THEN 0
    ELSE IF SubSeq(s, i, i + Len(sub) - 1) = sub THEN i
    ELSE IndexOfFrom(s, sub, i + 1)

\* String.prototype.includes
Includes(s, sub) == IndexOfFrom(s, sub, 1) # 0

\* String.prototype.startsWith
StartsWith(s, pre) == Len(pre) <= Len(s) /\ SubSeq(s, 1, Len(pre)) = pre

\* the text left after dropping leading blanks
RECURSIVE TrimStart(_)
TrimStart(s) ==
    IF s = <<>> THEN <<>>
    ELSE IF Head(s) = " " THEN TrimStart(Tail(s))
    ELSE s

\* the text left after dropping trailing blanks
RECURSIVE TrimEnd(_)
TrimEnd(s) ==
    IF s = <<>> THEN <<>>
    ELSE IF s[Len(s)] = " " THEN TrimEnd(SubSeq(s, 1, Len(s) - 1))
    ELSE s

\* String.prototype.trim
Trim(s) == TrimEnd(TrimStart(s))

\* s.split(sep)[0] for a non-empty separator: the text before its first occurrence
SplitHead(s, sep) ==
    LET i == IndexOfFrom(s, sep, 1)
    IN IF i = 0 THEN s ELSE SubSeq(s, 1, i - 1)

\* s.split(sep) for a non-empty separator
RECURSIVE Split(_, _)
Split(s, sep) ==
    LET i == IndexOfFrom(s, sep, 1)
    IN IF i = 0 THEN <<s>>
       ELSE <<SubSeq(s, 1, i - 1)>> \o Split(SubSeq(s, i + Len(sep), Len(s)), sep)

\* Array.prototype.find: the index of the first element that passes the test,
\* given the indexes of the elements that pass it (0: none does)
FirstIndex(passing) ==
    IF passing = {} THEN 0
    ELSE CHOOSE i \in passing : \A j \in passing : i <= j

\* Map.set over a forEach: the index of the last element written under the key,
\* given the indexes of the elements with that key (0: none has it)
LastIndex(passing) ==
    IF passing = {} THEN 0
    ELSE CHOOSE i \in passing : \A j \in passing : j <= i

----------------------------------------------------------------------------
(* Text values the model draws its inputs from.                            *)

NoId == ""

AlLi == <<"A","l"," ","L","i">>
FirstAl == <<"A","l">>
FirstAlLower == <<"a","l">>
FirstBo == <<"B","o">>
LastLi == <<"L","i">>

GeneCone == <<"G","e","n","e"," ","C","o","n","e">>
GeneConeAndScott ==
    GeneCone \o <<" ","&"," ","S","c","o","t","t"," ","S","t","r","i","n","g","e","r">>
BoRa == <<"B","o"," ","R","a">>
SentinelX == <<"x">>

NoNote == <<>>
NoteMovedAway == <<"M","o","v","e","d"," ","a","w","a","y">>

TabGeneCone == <<"G","c","g"," ">> \o GeneCone
TabGeneConeScott ==
    <<"G","c","g"," ">> \o GeneCone
        \o <<" "," ","S","c","o","t","t"," ","S","t","r","i","n","g","e","r">>
TabBoRa == <<"G","c","g"," ">> \o BoRa
TabElders == <<"E","l","d","e","r","s">>

\* Person IDs in ascending numeric order (the order Object.keys gives
\* integer-like keys)
PersonIds == <<"100", "101">>

Persons == {PersonIds[i] : i \in 1..Len(PersonIds)}

----------------------------------------------------------------------------
(* comparison-engine.js: reading the roster.                               *)

RowMember(row, k) ==
    [personId    |-> row.personId,
     firstName   |-> row.firstName,
     lastName    |-> row.lastName,
     fullName    |-> Trim(row.firstName \o <<" ">> \o row.lastName),
     group       |-> row.group,
     actionSteps |-> row.actionSteps,
     rowIndex    |-> k + 1]

\* a reader that keeps the rows labelled 'x'
KeepsRowWithSentinel(m) ==
    /\ m.firstName # <<>>
    /\ m.lastName # <<>>
    /\ m.group # <<>>

\* Rows with a first and a last name whose group is neither empty nor 'x'
KeepsRow(m) ==
    /\ m.firstName # <<>>
    /\ m.lastName # <<>>
    /\ m.group # <<>>
    /\ ToLowerCase(m.group) # <<"x">>

getGCGMembersWithPersonId(rows) ==
    SelectSeq([k \in 1..Len(rows) |-> RowMember(rows[k], k)], KeepsRow)

inactiveIndicators ==
    << <<"i","n","a","c","t","i","v","e">>,
       <<"m","o","v","e","d"," ","a","w","a","y">>,
       <<"n","o"," ","l","o","n","g","e","r"," ","a","c","t","i","v","e">>,
       <<"l","e","f","t"," ","c","h","u","r","c","h">>,
       <<"t","r","a","n","s","f","e","r","r","e","d">> >>

\* a classifier that compares the note as written, without lower-casing it
isMarkedInactiveCaseSensitive(member) ==
    /\ member.actionSteps # <<>>
    /\ \E i \in 1..Len(inactiveIndicators) :
           Includes(member.actionSteps, inactiveIndicators[i])

isMarkedInactive(member) ==
    /\ member.actionSteps # <<>>
    /\ \E i \in 1..Len(inactiveIndicators) :
           Includes(ToLowerCase(member.actionSteps), inactiveIndicators[i])

\* a normaliser that does not trim the segment left of the '&'
normalizeGroupNameUntrimmedSegment(groupName) ==
    IF groupName = <<>> THEN <<>>
    ELSE SplitHead(Trim(groupName), <<"&">>)

normalizeGroupName(groupName) ==
    IF groupName = <<>> THEN <<>>
    ELSE Trim(SplitHead(Trim(groupName), <<"&">>))

----------------------------------------------------------------------------
(* google-sheets-parser.js: the two Breeze exports.                        *)

excludedTags ==
    << <<"s","u","r","v","e","y">>,
       <<"l","e","a","d","e","r","s">>,
       <<"l","e","a","d","e","r","s","h","i","p">>,
       <<"t","r","a","i","n","i","n","g">>,
       <<"c","o","o","r","d","i","n","a","t","o","r">>,
       <<"a","d","m","i","n">>,
       <<"a","l","l"," ","l","e","a","d","e","r","s">>,
       <<"l","e","a","d","e","r"," ","t","r","a","i","n","i","n","g">>,
       <<"d","e","v","e","l","o","p","m","e","n","t">>,
       <<"w","i","v","e","s">>,
       <<"a","c","t","i","v","e">>,
       <<"n","o","t">>,
       <<"r","e","s","o","u","r","c","e","s">>,
       <<"m","a","t","e","r","i","a","l","s">>,
       <<"p","l","a","n","n","i","n","g">> >>

\* part.trim().split(' ').filter(word => word.length > 0)
Words(part) == SelectSeq(Split(Trim(part), <<" ">>), LAMBDA w : w # <<>>)

\* /^[A-Z]/.test(word)
StartsWithCapital(word) ==
    word # <<>> /\ \E i \in 1..Len(UpperChars) : UpperChars[i] = word[1]

\* a part of the name is a leader: at least two words, each of at least two
\* characters and starting with a capital letter
IsLeaderName(part) ==
    LET words == Words(part)
    IN /\ Len(words) >= 2
       /\ \A j \in 1..Len(words) : Len(words[j]) >= 2 /\ StartsWithCapital(words[j])

isValidGCGGroup(tabName) ==
    /\ StartsWith(tabName, <<"G","c","g"," ">>)
    /\ LET namePart      == SubSeq(tabName, 5, Len(tabName))
           lowerNamePart == ToLowerCase(namePart)
           parts         == Split(namePart, <<" "," ">>)
       IN /\ \A i \in 1..Len(excludedTags) : ~Includes(lowerNamePart, excludedTags[i])
          /\ Len(parts) <= 2
          /\ \A i \in 1..Len(parts) : IsLeaderName(parts[i])

\* sheetName.replace(/^Gcg\s+/i, '')
StripGcgPrefix(sheetName) ==
    IF /\ Len(sheetName) >= 4
       /\ ToLowerCase(SubSeq(sheetName, 1, 3)) = <<"g","c","g">>
       /\ sheetName[4] = " "
    THEN TrimStart(SubSeq(sheetName, 4, Len(sheetName)))
    ELSE sheetName

extractLeaderFromSheetName(sheetName) ==
    LET namesPart == Trim(StripGcgPrefix(sheetName))
    IN IF Includes(namesPart, <<" "," ">>)
       THEN LET parts    == Split(namesPart, <<" "," ">>)
                leader   == Trim(parts[1])
                coLeader == Trim(parts[2])
            IN [leader      |-> leader,
                coLeader    |-> coLeader,
                displayName |-> leader \o <<" ","&"," ">> \o coLeader]
       ELSE [leader      |-> namesPart,
             coLeader    |-> <<>>,
             displayName |-> namesPart]

\* The member pushed for a data row of the active-members export
ActiveMember(row) ==
    [personId       |-> row.personId,
     firstName      |-> row.firstName,
     lastName       |-> row.lastName,
     fullName       |-> Trim(row.firstName \o <<" ">> \o row.lastName),
     isActiveMember |-> TRUE,
     isSynthetic    |-> FALSE]

parseActiveMembersSheet(file) ==
    LET kept == SelectSeq(file, LAMBDA row : row.personId # NoId)
    IN [i \in 1..Len(kept) |-> ActiveMember(kept[i])]

TagMember(row, sheetName) ==
    [personId    |-> row.personId,
     firstName   |-> Trim(row.firstName),
     lastName    |-> Trim(row.lastName),
     sourceSheet |-> sheetName]

parseGCGSheet(sheet) ==
    LET leaderInfo == extractLeaderFromSheetName(sheet.name)
        kept == SelectSeq(sheet.rows,
                          LAMBDA row : /\ row.personId # NoId
                                       /\ Trim(row.firstName) # <<>>
                                       /\ Trim(row.lastName) # <<>>)
        members == [i \in 1..Len(kept) |-> TagMember(kept[i], sheet.name)]
    IN [sheetName   |-> sheet.name,
        displayName |-> leaderInfo.displayName,
        leader      |-> leaderInfo.leader,
        coLeader    |-> leaderInfo.coLeader,
        members     |-> members,
        memberCount |-> Len(members)]

HasMember(group, personId) ==
    \E i \in 1..Len(group.members) : group.members[i].personId = personId

\* assignments[personId]: written once per group in tab order, the last group wins
Assignment(groups, personId) ==
    LET g == groups[LastIndex({n \in 1..Len(groups) :
            HasMember(groups[n], personId)})]
    IN [groupName |-> g.displayName,
        sheetName |-> g.sheetName,
        leader    |-> g.leader,
        coLeader  |-> g.coLeader,
        memberCount |-> g.memberCount]

parseTagsSheet(file) ==
    LET gcgSheets == SelectSeq(file, LAMBDA sheet : isValidGCGGroup(sheet.name))
        groups    == [i \in 1..Len(gcgSheets) |-> parseGCGSheet(gcgSheets[i])]
    IN [groups |-> groups,
        assignments |->
            [p \in {q \in Persons : \E i \in 1..Len(groups) : HasMember(groups[i], q)}
                |-> Assignment(groups, p)]]

----------------------------------------------------------------------------
(* smart-file-detection.js and comparison-engine.js: the truth snapshot.   *)

\* gcgStatus of a member; a null groupName / leader / coLeader is <<>>
GcgStatus(assignments, personId) ==
    IF personId \in DOMAIN assignments
    THEN [inGroup   |-> TRUE,
          groupName |-> assignments[personId].groupName,
          leader    |-> assignments[personId].leader,
          coLeader  |-> assignments[personId].coLeader]
    ELSE [inGroup |-> FALSE, groupName |-> <<>>, leader |-> <<>>, coLeader |-> <<>>]

WithGCGStatus(member, assignments) ==
    [personId       |-> member.personId,
     firstName      |-> member.firstName,
     lastName       |-> member.lastName,
     fullName       |-> member.fullName,
     isActiveMember |-> member.isActiveMember,
     isSynthetic    |-> member.isSynthetic,
     gcgStatus      |-> GcgStatus(assignments, member.personId)]

parseRealGCGDataSmart(activeFile, tagsFile) ==
    LET activeMembers == parseActiveMembersSheet(activeFile)
        tagsResult    == parseTagsSheet(tagsFile)
    IN [activeMembers        |-> activeMembers,
        membersWithGCGStatus |->
            [i \in 1..Len(activeMembers) |->
                WithGCGStatus(activeMembers[i], tagsResult.assignments)],
        groups      |-> tagsResult.groups,
        assignments |-> tagsResult.assignments]

\* a lookup of the group by its tab name instead of its display name
MissingPersonBySheetName(standardData, personId) ==
    LET assignment == standardData.assignments[personId]
        gi == FirstIndex({n \in 1..Len(standardData.groups) :
                standardData.groups[n].sheetName = assignment.groupName})
    IN IF gi = 0 THEN [personId |-> NoId]
       ELSE [personId  |-> personId,
             firstName |-> <<>>,
             lastName  |-> <<>>,
             fullName  |-> <<" ">>,
             groupName |-> assignment.groupName,
             sheetName |-> assignment.sheetName]

\* The missingFromActive record of a person id that has an assignment but no
\* directory row, or [personId |-> NoId] when the group or the member is not found
MissingPerson(standardData, personId) ==
    LET assignment == standardData.assignments[personId]
        gi == FirstIndex({n \in 1..Len(standardData.groups) :
                standardData.groups[n].displayName = assignment.groupName})
        mi == IF gi = 0 THEN 0
              ELSE FirstIndex({n \in 1..Len(standardData.groups[gi].members) :
                      standardData.groups[gi].members[n].personId = personId})
    IN IF mi = 0 THEN [personId |-> NoId]
       ELSE LET member == standardData.groups[gi].members[mi]
            IN [personId  |-> personId,
                firstName |-> member.firstName,
                lastName  |-> member.lastName,
                fullName  |-> member.firstName \o <<" ">> \o member.lastName,
                groupName |-> assignment.groupName,
                sheetName |-> assignment.sheetName]

MissingFromActive(standardData) ==
    LET gcgPersonIds ==
            SelectSeq(PersonIds, LAMBDA p : p \in DOMAIN standardData.assignments)
        absent ==
            SelectSeq(gcgPersonIds,
                      LAMBDA p : \A i \in 1..Len(standardData.activeMembers) :
                                     standardData.activeMembers[i].personId # p)
    IN SelectSeq([i \in 1..Len(absent) |-> MissingPerson(standardData, absent[i])],
                 LAMBDA person : person.personId # NoId)

SyntheticMember(person) ==
    [personId       |-> person.personId,
     firstName      |-> person.firstName,
     lastName       |-> person.lastName,
     fullName       |-> person.fullName,
     isActiveMember |-> FALSE,
     isSynthetic    |-> TRUE]

\* lines 157-186 and the returned snapshot: the synthetic members are appended
\* to the active members and the gcgStatus of every member is recomputed
EnhancedData(standardData) ==
    LET missingFromActive == MissingFromActive(standardData)
        enhancedActiveMembers ==
            standardData.activeMembers
                \o [i \in 1..Len(missingFromActive) |->
                       SyntheticMember(missingFromActive[i])]
    IN [activeMembers        |-> enhancedActiveMembers,
        membersWithGCGStatus |->
            [i \in 1..Len(enhancedActiveMembers) |->
                WithGCGStatus(enhancedActiveMembers[i], standardData.assignments)],
        groups            |-> standardData.groups,
        assignments       |-> standardData.assignments,
        missingFromActive |-> missingFromActive]

\* standardData is parsed once and then read
parseRealGCGDataWithGCGMembers(activeFile, tagsFile) ==
    CHOOSE data \in {EnhancedData(standardData) :
                        standardData \in {parseRealGCGDataSmart(activeFile, tagsFile)}} : TRUE

----------------------------------------------------------------------------
(* comparison-engine.js: fixedCompareWithInactiveFiltering.                *)

\* a filter that keeps the active members of the directory only
KeepsExportMemberOfDirectory(m, allCurrentMembers) ==
    /\ m.gcgStatus.inGroup
    /\ m.isActiveMember
    /\ LET ci == FirstIndex({n \in 1..Len(allCurrentMembers) :
            allCurrentMembers[n].personId = m.personId})
       IN ~(ci # 0 /\ isMarkedInactive(allCurrentMembers[ci]))

\* a filter that does not look at the roster
KeepsExportMemberInGroup(m, allCurrentMembers) == m.gcgStatus.inGroup

\* The filter that builds exportMembers: in a group, and the first roster
\* member with the same id (if any) is not marked inactive
KeepsExportMember(m, allCurrentMembers) ==
    /\ m.gcgStatus.inGroup
    /\ LET ci == FirstIndex({n \in 1..Len(allCurrentMembers) :
            allCurrentMembers[n].personId = m.personId})
       IN ~(ci # 0 /\ isMarkedInactive(allCurrentMembers[ci]))

\* currentByPersonId.get(personId): index of the entry, 0 when there is none
CurrentByPersonId(activeCurrentMembers, personId) ==
    LastIndex({n \in 1..Len(activeCurrentMembers) :
            activeCurrentMembers[n].personId # NoId /\ activeCurrentMembers[n].personId = personId})

\* a name map that also holds the entries that have a Person ID
CurrentByNameOfAllEntries(activeCurrentMembers, name) ==
    LastIndex({n \in 1..Len(activeCurrentMembers) :
            ToLowerCase(activeCurrentMembers[n].fullName) = name})

\* a name map in which the first entry with a name wins
CurrentByNameOfFirstEntry(activeCurrentMembers, name) ==
    FirstIndex({n \in 1..Len(activeCurrentMembers) :
            activeCurrentMembers[n].personId = NoId /\ ToLowerCase(activeCurrentMembers[n].fullName) = name})

\* currentByName.get(name): index of the entry, 0 when there is none
CurrentByName(activeCurrentMembers, name) ==
    LastIndex({n \in 1..Len(activeCurrentMembers) :
            activeCurrentMembers[n].personId = NoId /\ ToLowerCase(activeCurrentMembers[n].fullName) = name})

\* a comparison of the raw labels
GroupChangedRaw(currentMember, exportMember) ==
    currentMember.group # exportMember.gcgStatus.groupName

GroupChanged(currentMember, exportMember) ==
    normalizeGroupName(currentMember.group)
        # normalizeGroupName(exportMember.gcgStatus.groupName)

\* The record the first loop pushes for one export member ("none": nothing)
ExportMemberChange(exportMember, activeCurrentMembers) ==
    LET ci == CurrentByPersonId(activeCurrentMembers, exportMember.personId)
        ni == CurrentByName(activeCurrentMembers, ToLowerCase(exportMember.fullName))
    IN IF ci = 0
       THEN IF ni # 0
            THEN [type         |-> "missingPersonId",
                  member       |-> activeCurrentMembers[ni],
                  exportMember |-> exportMember,
                  reason       |-> "Person exists by name but missing Person ID"]
            ELSE [type   |-> "addition",
                  member |-> exportMember,
                  reason |-> "New member in GCG exports"]
       ELSE IF GroupChanged(activeCurrentMembers[ci], exportMember)
            THEN [type          |-> "update",
                  currentMember |-> activeCurrentMembers[ci],
                  exportMember  |-> exportMember,
                  updates       |->
                      <<[field    |-> "group",
                         oldValue |-> activeCurrentMembers[ci].group,
                         newValue |-> exportMember.gcgStatus.groupName,
                         normalizedOld |->
                             normalizeGroupName(activeCurrentMembers[ci].group),
                         normalizedNew |->
                             normalizeGroupName(exportMember.gcgStatus.groupName)]>>]
            ELSE [type |-> "none"]

\* a second loop that does not skip the entries found in the export
CurrentMemberChangeOfEveryEntry(currentMember, exportMembers, data) ==
    IF currentMember.personId # NoId
    THEN IF \E i \in 1..Len(data.activeMembers) :
                data.activeMembers[i].personId = currentMember.personId
         THEN [type   |-> "exportDataIncomplete",
               member |-> currentMember,
               reason |-> "Person is active but missing from GCG tags in export"]
         ELSE [type   |-> "removal",
               member |-> currentMember,
               reason |-> "No longer in active members"]
    ELSE [type |-> "none"]

\* a second loop that never consults the member directory
CurrentMemberChangeAlwaysRemoval(currentMember, exportMembers, data) ==
    IF /\ currentMember.personId # NoId
       /\ \A i \in 1..Len(exportMembers) :
              exportMembers[i].personId # currentMember.personId
    THEN [type   |-> "removal",
          member |-> currentMember,
          reason |-> "No longer in active members"]
    ELSE [type |-> "none"]

\* The record the second loop pushes for one active roster member
CurrentMemberChange(currentMember, exportMembers, data) ==
    IF /\ currentMember.personId # NoId
       /\ \A i \in 1..Len(exportMembers) :
              exportMembers[i].personId # currentMember.personId
    THEN IF \E i \in 1..Len(data.activeMembers) :
                data.activeMembers[i].personId = currentMember.personId
         THEN [type   |-> "exportDataIncomplete",
               member |-> currentMember,
               reason |-> "Person is active but missing from GCG tags in export"]
         ELSE [type   |-> "removal",
               member |-> currentMember,
               reason |-> "No longer in active members"]
    ELSE [type |-> "none"]

fixedCompareWithInactiveFiltering(data, sheetRows) ==
    LET allCurrentMembers    == getGCGMembersWithPersonId(sheetRows)
        activeCurrentMembers ==
            SelectSeq(allCurrentMembers, LAMBDA member : ~isMarkedInactive(member))
        exportMembers ==
            SelectSeq(data.membersWithGCGStatus,
                      LAMBDA m : KeepsExportMember(m, allCurrentMembers))
        first  == [i \in 1..Len(exportMembers) |->
                      ExportMemberChange(exportMembers[i], activeCurrentMembers)]
        second == [i \in 1..Len(activeCurrentMembers) |->
                      CurrentMemberChange(activeCurrentMembers[i], exportMembers, data)]
    IN [additions |-> SelectSeq(first, LAMBDA c : c.type = "addition"),
        updates   |-> SelectSeq(first, LAMBDA c : c.type \in {"missingPersonId", "update"}),
        removals  |-> SelectSeq(second, LAMBDA c : c.type = "removal"),
        inactiveFiltered |-> Len(allCurrentMembers) - Len(activeCurrentMembers),
        exportMissingButActive |->
            SelectSeq(second, LAMBDA c : c.type = "exportDataIncomplete")]

----------------------------------------------------------------------------
(* Writing a ChangeSet back to the roster.  menu-system.js leaves this to  *)
(* an update engine that is not part of the sources (applyGCGMemberChanges *)
(* is a placeholder); the write-back is the one the specification states:  *)
(* group updates applied, missing identifiers backfilled, removals         *)
(* deleted, additions inserted with their id and truth-data group.         *)

RECURSIVE ApplyUpdates(_, _)
ApplyUpdates(rows, updates) ==
    IF updates = <<>> THEN rows
    ELSE LET u == Head(updates)
             k == IF u.type = "update" THEN u.currentMember.rowIndex - 1
                  ELSE u.member.rowIndex - 1
             row == IF u.type = "update"
                    THEN [rows[k] EXCEPT !.group = u.updates[1].newValue]
                    ELSE [rows[k] EXCEPT !.personId = u.exportMember.personId]
         IN ApplyUpdates([rows EXCEPT ![k] = row], Tail(updates))

RECURSIVE DeleteRows(_, _, _)
DeleteRows(rows, removed, k) ==
    IF k > Len(rows) THEN <<>>
    ELSE (IF k \in removed THEN <<>> ELSE <<rows[k]>>) \o DeleteRows(rows, removed, k + 1)

AddedRow(addition) ==
    [personId    |-> addition.member.personId,
     firstName   |-> addition.member.firstName,
     lastName    |-> addition.member.lastName,
     group       |-> addition.member.gcgStatus.groupName,
     actionSteps |-> <<>>]

ApplyToRoster(rows, changeSet) ==
    LET updated == ApplyUpdates(rows, changeSet.updates)
        removed == {changeSet.removals[i].member.rowIndex - 1 :
                        i \in 1..Len(changeSet.removals)}
    IN DeleteRows(updated, removed, 1)
           \o [i \in 1..Len(changeSet.additions) |-> AddedRow(changeSet.additions[i])]

----------------------------------------------------------------------------
(* Inputs.  A Person ID occurs at most once in the roster and at most once *)
(* in the directory export (SETUP.md: "No duplicate Person IDs"); the two  *)
(* exports come from one database, so a person carries one name in both.   *)

RosterGroups == {GeneCone, GeneConeAndScott, SentinelX}
RosterNotes == {NoNote, NoteMovedAway}

\* A row that carries a Person ID is only ever matched by that id: its name is
\* not read by the comparison, so such rows all carry one name.
RosterRows ==
    [personId    : {NoId},
     firstName   : {FirstAlLower, FirstBo},
     lastName    : {LastLi},
     group       : RosterGroups,
     actionSteps : RosterNotes]
    \cup
    [personId    : Persons,
     firstName   : {FirstAlLower},
     lastName    : {LastLi},
     group       : RosterGroups,
     actionSteps : RosterNotes]

UniqueIds(rows) ==
    \A i, j \in 1..Len(rows) :
        (i # j /\ rows[i].personId # NoId) => rows[i].personId # rows[j].personId

Rosters ==
    {rows \in UNION {[1..n -> RosterRows] : n \in 0..MaxRoster} : UniqueIds(rows)}

TagTabs == <<TabGeneCone, TabGeneConeScott, TabBoRa, TabElders>>

\* first names of the people in Breeze: "100" is Al Li, "101" is Al Li or Bo Li
TruthFirstNames ==
    {f \in [Persons -> {FirstAl, FirstBo}] : f["100"] = FirstAl}

\* the tab each person is tagged with (0: none); "101" is untagged, in the first
\* group or on the Elders roll
TagChoices ==
    {t \in [Persons -> 0..Len(TagTabs)] : t["100"] # 4 /\ t["101"] \in {0, 1, 4}}

ExportRow(personId, firstNames) ==
    [personId |-> personId, firstName |-> firstNames[personId], lastName |-> LastLi]

DirectoryOf(present, firstNames) ==
    LET ids == SelectSeq(PersonIds, LAMBDA p : p \in present)
    IN [i \in 1..Len(ids) |-> ExportRow(ids[i], firstNames)]

TagsOf(choice, firstNames) ==
    [k \in 1..Len(TagTabs) |->
        LET ids == SelectSeq(PersonIds, LAMBDA p : choice[p] = k)
        IN [name |-> TagTabs[k],
            rows |-> [i \in 1..Len(ids) |-> ExportRow(ids[i], firstNames)]]]

NoExportData ==
    [activeMembers |-> <<>>, membersWithGCGStatus |-> <<>>, groups |-> <<>>,
     assignments |-> <<>>, missingFromActive |-> <<>>]

NoChanges ==
    [additions |-> <<>>, updates |-> <<>>, removals |-> <<>>,
     inactiveFiltered |-> 0, exportMissingButActive |-> <<>>]

NoNotInGCGChanges == [additions |-> <<>>, deletions |-> <<>>, familyGroupsProcessed |-> 0]

\* the 'Not in a GCG' comparison has not run: an empty sheet and no results
NoNotInGCGRun ==
    /\ notInGCGSheet = <<>>
    /\ engineCopy = 1
    /\ tagsFileOpens = TRUE
    /\ unreadableTabs = {}
    /\ excludedIds = {}
    /\ representatives = <<>>
    /\ notInGCGChanges = NoNotInGCGChanges

\* no text function and no reader has run on an input of its own
NoTextRun ==
    /\ text = <<>>
    /\ textResult = <<>>
    /\ sheetValues = <<>>
    /\ inactiveFile = [found |-> FALSE, rows |-> <<>>]
    /\ parsed = <<>>

\* no preview was generated and no confirmation flow has run
NoFlowRun ==
    /\ previewSheet = FALSE
    /\ dialogs = <<>>
    /\ answers = <<>>
    /\ summary = NoChanges

Init ==
    /\ roster \in Rosters
    \* who is in the active-members export: "101" always is
    /\ \E present \in {p \in SUBSET Persons : "101" \in p},
          firstNames \in TruthFirstNames,
          choice \in TagChoices :
           /\ directory = DirectoryOf(present, firstNames)
           /\ tags = TagsOf(choice, firstNames)
    /\ exportData = NoExportData
    /\ changes = NoChanges
    /\ phase = "idle"
    /\ reflects = FALSE
    /\ NoNotInGCGRun
    /\ NoTextRun
    /\ NoFlowRun

----------------------------------------------------------------------------
(* Operations.                                                             *)

\* preview-report.js: parse both exports, compare against the roster, then
\* replace the 'Breeze Update Preview' sheet by a new one
generatePreviewReport ==
    /\ tagsFileOpens
    /\ exportData' = parseRealGCGDataWithGCGMembers(directory, tags)
    /\ changes' = fixedCompareWithInactiveFiltering(exportData', roster)
    /\ phase' = "compared"
    /\ previewSheet' = TRUE
    /\ UNCHANGED <<roster, directory, tags, reflects>>
    /\ UNCHANGED <<notInGCGVars, textVars>>
    /\ UNCHANGED <<dialogs, answers, summary>>

\* menu-system.js: parse, compare, then hand the ChangeSet to the update
\* engine, which writes it back to the roster.  One write-back is followed, so
\* that the run after it is the second run on unchanged truth data.  Without
\* the tags export findLatestFile throws and the run ends with nothing done.
applyAllUpdates ==
    /\ ~reflects
    /\ tagsFileOpens
    /\ exportData' = parseRealGCGDataWithGCGMembers(directory, tags)
    /\ changes' = fixedCompareWithInactiveFiltering(exportData', roster)
    /\ roster' = ApplyToRoster(roster, changes')
    /\ reflects' = TRUE
    /\ phase' = "applied"
    /\ UNCHANGED <<directory, tags>>
    /\ UNCHANGED <<notInGCGVars, textVars>>
    /\ UNCHANGED flowVars

Next == generatePreviewReport \/ applyAllUpdates

Spec == Init /\ [][Next]_vars

----------------------------------------------------------------------------
(* Vocabulary of the properties, stated on the inputs of a run (roster,    *)
(* directory, tags) and on its outputs (exportData, changes).              *)

Compared == phase = "compared"

\* the rows of the roster that are roster entries: a row whose group label is
\* the sentinel 'x' is a placeholder, not an entry
Entries == {k \in 1..Len(roster) : roster[k].group # SentinelX}

InactiveNotes == {NoteMovedAway}

InactiveEntries == {k \in Entries : roster[k].actionSteps \in InactiveNotes}

ActiveEntries == Entries \ InactiveEntries

NameKey(firstName, lastName) == ToLowerCase(Trim(firstName \o <<" ">> \o lastName))

RowNameKey(k) == NameKey(roster[k].firstName, roster[k].lastName)

DirectoryIds == {directory[i].personId : i \in 1..Len(directory)}

\* the truth-data group members of the run, and the group each is assigned to
GroupMembers ==
    {exportData.membersWithGCGStatus[i] :
        i \in {j \in 1..Len(exportData.membersWithGCGStatus) :
                  exportData.membersWithGCGStatus[j].gcgStatus.inGroup}}

AssignedIds == DOMAIN exportData.assignments

TruthGroup(personId) == exportData.assignments[personId].groupName

Additions == {changes.additions[i] : i \in 1..Len(changes.additions)}

Updates == {changes.updates[i] : i \in 1..Len(changes.updates)}

GroupUpdates == {u \in Updates : u.type = "update"}

IdBackfills == {u \in Updates : u.type = "missingPersonId"}

AdditionIds == {a.member.personId : a \in Additions}

UpdateIds == {u.exportMember.personId : u \in Updates}

RemovalIds == {changes.removals[i].member.personId : i \in 1..Len(changes.removals)}

ExportMissingIds ==
    {changes.exportMissingButActive[i].member.personId :
        i \in 1..Len(changes.exportMissingButActive)}

SyntheticIds ==
    {exportData.missingFromActive[i].personId :
        i \in 1..Len(exportData.missingFromActive)}

\* the roster rows (1-based data rows) the records of a category refer to
UpdatedRows ==
    {u.currentMember.rowIndex - 1 : u \in GroupUpdates}
        \cup {u.member.rowIndex - 1 : u \in IdBackfills}

RemovedRows ==
    {changes.removals[i].member.rowIndex - 1 : i \in 1..Len(changes.removals)}

ExportMissingRows ==
    {changes.exportMissingButActive[i].member.rowIndex - 1 :
        i \in 1..Len(changes.exportMissingButActive)}

----------------------------------------------------------------------------
(* C1: a truth-data group member whose Person ID matches a roster entry    *)
(* that is not inactive gets an update of type 'update' exactly when the   *)
(* normalized roster label differs from the normalized truth group name,   *)
(* the update names that row and carries the raw old and new labels; a     *)
(* label that differs only by a co-leader suffix gives no update.          *)
C1_UpdateIffGroupKeyDiffers ==
    Compared =>
        \A m \in GroupMembers : \A k \in ActiveEntries :
            roster[k].personId = m.personId =>
                /\ (\E u \in GroupUpdates : u.exportMember.personId = m.personId)
                       <=> normalizeGroupName(roster[k].group)
                               # normalizeGroupName(TruthGroup(m.personId))
                /\ \A u \in GroupUpdates :
                       u.exportMember.personId = m.personId =>
                           /\ u.currentMember.rowIndex = k + 1
                           /\ u.updates[1].oldValue = roster[k].group
                           /\ u.updates[1].newValue = TruthGroup(m.personId)
                /\ {roster[k].group, TruthGroup(m.personId)} \subseteq
                           {GeneCone, GeneConeAndScott}
                       => m.personId \notin UpdateIds

C1_Witness ==
    /\ Compared
    /\ \E m \in GroupMembers : \E k \in ActiveEntries :
           /\ roster[k].personId = m.personId
           /\ roster[k].group = GeneConeAndScott
           /\ TruthGroup(m.personId) = GeneCone
           /\ m.personId \notin UpdateIds
    /\ \E m \in GroupMembers : \E k \in ActiveEntries :
           /\ roster[k].personId = m.personId
           /\ roster[k].group = GeneCone
           /\ TruthGroup(m.personId) = GeneConeAndScott
           /\ m.personId \notin UpdateIds

----------------------------------------------------------------------------
(* C2: a truth-data group member for whom no roster row carries the same   *)
(* Person ID and no roster row without a Person ID carries the same        *)
(* lower-cased full name gets exactly one addition, which carries the      *)
(* truth-data group, and no update.                                        *)
C2_UnmatchedMemberIsAddedOnce ==
    Compared =>
        \A m \in GroupMembers :
            (/\ \A k \in 1..Len(roster) : roster[k].personId # m.personId
             /\ \A k \in 1..Len(roster) :
                    roster[k].personId = NoId
                        => RowNameKey(k) # NameKey(m.firstName, m.lastName))
            => /\ Cardinality({i \in 1..Len(changes.additions) :
                      changes.additions[i].member.personId = m.personId}) = 1
               /\ \A a \in Additions :
                      a.member.personId = m.personId
                          => /\ a.type = "addition"
                             /\ a.member.gcgStatus.groupName = TruthGroup(m.personId)
               /\ m.personId \notin UpdateIds

C2_Witness ==
    /\ Compared
    /\ \E m \in GroupMembers :
           /\ \A k \in 1..Len(roster) : roster[k].personId # m.personId
           /\ \E k \in 1..Len(roster) :
                  /\ roster[k].personId # NoId
                  /\ RowNameKey(k) = NameKey(m.firstName, m.lastName)
           /\ \E k \in 1..Len(roster) :
                  /\ roster[k].personId = NoId
                  /\ RowNameKey(k) # NameKey(m.firstName, m.lastName)
           /\ m.personId \in AdditionIds
           /\ TruthGroup(m.personId) = GeneCone

----------------------------------------------------------------------------
(* C3: the name fallback is used only for a member no roster entry matches *)
(* by Person ID and only reaches entries without a Person ID: a name match *)
(* gives one 'missingPersonId' update and no addition; a member matched by *)
(* Person ID gets neither a name match nor an addition; an entry that has  *)
(* a Person ID is never the target of a name match.                        *)
C3_NameFallbackOnlyWithoutIdMatch ==
    Compared =>
        /\ \A u \in IdBackfills :
               /\ u.member.personId = NoId
               /\ u.member.rowIndex - 1 \in ActiveEntries
               /\ roster[u.member.rowIndex - 1].personId = NoId
               /\ RowNameKey(u.member.rowIndex - 1)
                      = NameKey(u.exportMember.firstName, u.exportMember.lastName)
               /\ \A k \in Entries : roster[k].personId # u.exportMember.personId
        /\ \A m \in GroupMembers :
               (/\ \A k \in Entries : roster[k].personId # m.personId
                /\ \E k \in ActiveEntries :
                       /\ roster[k].personId = NoId
                       /\ RowNameKey(k) = NameKey(m.firstName, m.lastName))
               => /\ Cardinality({i \in 1..Len(changes.updates) :
                         changes.updates[i].exportMember.personId = m.personId}) = 1
                  /\ \E u \in IdBackfills : u.exportMember.personId = m.personId
                  /\ m.personId \notin AdditionIds
        /\ \A m \in GroupMembers :
               (\E k \in Entries : roster[k].personId = m.personId)
               => /\ \A u \in IdBackfills : u.exportMember.personId # m.personId
                  /\ m.personId \notin AdditionIds

C3_Witness ==
    /\ Compared
    /\ \E u \in IdBackfills : \E k \in ActiveEntries :
           /\ roster[k].personId # NoId
           /\ RowNameKey(k)
                  = NameKey(u.exportMember.firstName, u.exportMember.lastName)
    /\ \E m \in GroupMembers : \E k, n \in ActiveEntries :
           /\ roster[k].personId = m.personId
           /\ roster[n].personId = NoId
           /\ RowNameKey(n) = NameKey(m.firstName, m.lastName)
           /\ \A u \in IdBackfills : u.exportMember.personId # m.personId

----------------------------------------------------------------------------
(* C4: a roster entry that is not inactive and has a Person ID is in       *)
(* exportMissingButActive exactly when the id has no truth-data group      *)
(* assignment and is in the member directory, and in removals exactly when *)
(* the id has no assignment and is not in the directory; with an           *)
(* assignment it is in neither list.                                       *)
C4_UnassignedEntryIsFlaggedOrRemoved ==
    Compared =>
        \A k \in ActiveEntries :
            roster[k].personId # NoId =>
                /\ k \in ExportMissingRows
                       <=> /\ roster[k].personId \notin AssignedIds
                           /\ roster[k].personId \in DirectoryIds
                /\ k \in RemovedRows
                       <=> /\ roster[k].personId \notin AssignedIds
                           /\ roster[k].personId \notin DirectoryIds
                /\ roster[k].personId \in ExportMissingIds <=> k \in ExportMissingRows
                /\ roster[k].personId \in RemovalIds <=> k \in RemovedRows

C4_Witness ==
    /\ Compared
    /\ \E k \in ActiveEntries : k \in ExportMissingRows
    /\ \E k \in ActiveEntries : k \in RemovedRows

----------------------------------------------------------------------------
----------------------------------------------------------------------------
----------------------------------------------------------------------------
(* C7: every truth-data group member is the subject of at most one change  *)
(* record (an addition or an update, else no change), every roster entry   *)
(* is referred to by at most one change record (an update, a removal or an *)
(* exportMissingButActive record, else no change).                         *)
RecordsOfMember(personId) ==
    Cardinality({i \in 1..Len(changes.additions) :
                    changes.additions[i].member.personId = personId})
    + Cardinality({i \in 1..Len(changes.updates) :
                    changes.updates[i].exportMember.personId = personId})

RowOfUpdate(u) ==
    IF u.type = "update" THEN u.currentMember.rowIndex - 1 ELSE u.member.rowIndex - 1

RecordsOfRow(k) ==
    Cardinality({i \in 1..Len(changes.updates) : RowOfUpdate(changes.updates[i]) = k})
    + Cardinality({i \in 1..Len(changes.removals) :
                    changes.removals[i].member.rowIndex - 1 = k})
    + Cardinality({i \in 1..Len(changes.exportMissingButActive) :
                    changes.exportMissingButActive[i].member.rowIndex - 1 = k})

C7_PartitionCompleteness ==
    Compared =>
        /\ \A m \in GroupMembers : RecordsOfMember(m.personId) <= 1
        /\ \A k \in Entries : RecordsOfRow(k) <= 1

----------------------------------------------------------------------------
(* C8: once the roster has been updated to reflect a ChangeSet, a run on   *)
(* the unchanged truth data finds nothing to add, update or remove.        *)
C8_SecondRunIsEmpty ==
    (Compared /\ reflects) =>
        /\ changes.additions = <<>>
        /\ changes.updates = <<>>
        /\ changes.removals = <<>>

----------------------------------------------------------------------------
(* C9: a roster entry whose note classifies as inactive is referred to by  *)
(* no update, removal or exportMissingButActive record; a truth-data group *)
(* member whose Person ID is that of such an entry is in neither additions *)
(* nor updates; inactiveFiltered is the number of such entries.            *)
C9_InactiveEntriesAreLeftAlone ==
    Compared =>
        /\ \A k \in InactiveEntries :
               k \notin UpdatedRows \cup RemovedRows \cup ExportMissingRows
        /\ \A m \in GroupMembers :
               (\E k \in InactiveEntries : roster[k].personId = m.personId)
                   => m.personId \notin AdditionIds \cup UpdateIds
        /\ changes.inactiveFiltered = Cardinality(InactiveEntries)

C9_Witness ==
    /\ Compared
    /\ \E m \in GroupMembers : \E k \in InactiveEntries, n \in ActiveEntries :
           /\ roster[k].personId = m.personId
           /\ normalizeGroupName(roster[k].group)
                  # normalizeGroupName(TruthGroup(m.personId))
           /\ roster[n].personId = NoId
           /\ RowNameKey(n) = NameKey(m.firstName, m.lastName)
           /\ m.personId \notin AdditionIds \cup UpdateIds
    /\ changes.inactiveFiltered = 1

----------------------------------------------------------------------------
(* C10: a roster row whose group label is the sentinel 'x' is referred to  *)
(* by no removal, update or exportMissingButActive record, its Person ID   *)
(* is in none of these lists, and it is not counted in inactiveFiltered.   *)
SentinelRows == {k \in 1..Len(roster) : roster[k].group = SentinelX}

C10_SentinelRowsAreExcluded ==
    Compared =>
        /\ \A k \in SentinelRows :
               /\ k \notin RemovedRows \cup UpdatedRows \cup ExportMissingRows
               /\ roster[k].personId # NoId
                      => roster[k].personId \notin RemovalIds \cup ExportMissingIds
        /\ changes.inactiveFiltered
               = Cardinality({k \in 1..Len(roster) \ SentinelRows :
                                 roster[k].actionSteps \in InactiveNotes})

C10_Witness ==
    /\ Compared
    /\ \E k \in SentinelRows :
           /\ roster[k].personId # NoId
           /\ roster[k].personId \notin AssignedIds \cup DirectoryIds
           /\ roster[k].actionSteps \in InactiveNotes
    /\ changes.removals = <<>>
    /\ changes.inactiveFiltered = 0

----------------------------------------------------------------------------
(* comparison-engine.js: family logic of the 'Not in a GCG' list.          *)
(* The file declares this logic twice: lines 10-546 (with exclusions and   *)
(* removal reasons) and again lines 1846-2052 (without them).  engineCopy  *)
(* says which declaration the runtime has in force.                        *)

\* a missing family role (null, undefined or ''), a missing family id
NoRole == ""
NoFamily == ""

FAMILY_ROLE_PRIORITY ==
    [familyRole \in {"Head of Household", "Spouse", "Adult", "Child", "Unassigned"} |->
        CASE familyRole = "Head of Household" -> 1
          [] familyRole = "Spouse"            -> 2
          [] familyRole = "Adult"             -> 3
          [] familyRole = "Child"             -> 4
          [] familyRole = "Unassigned"        -> 5]

\* a table that ranks a missing or unrecognised role with 'Unassigned'
getFamilyRolePriorityUnknownAsUnassigned(familyRole) ==
    IF familyRole = NoRole THEN 5
    ELSE IF familyRole \in DOMAIN FAMILY_ROLE_PRIORITY
         THEN FAMILY_ROLE_PRIORITY[familyRole]
         ELSE 5

\* if (!familyRole) return 99; return FAMILY_ROLE_PRIORITY[familyRole] || 99
getFamilyRolePriority(familyRole) ==
    IF familyRole = NoRole THEN 99
    ELSE IF familyRole \in DOMAIN FAMILY_ROLE_PRIORITY
         THEN FAMILY_ROLE_PRIORITY[familyRole]
         ELSE 99

\* the first level of the default collation: letter by letter by the position
\* of the letter in the alphabet (0: no letter), case ignored, a prefix before
\* the longer text
RECURSIVE ComparePrimary(_, _)
ComparePrimary(a, b) ==
    LET CharRank(c) ==
            FirstIndex({i \in 1..Len(LowerChars) : LowerChars[i] = ToLowerChar(c)})
    IN IF a = <<>> /\ b = <<>> THEN 0
       ELSE IF a = <<>> THEN -1
       ELSE IF b = <<>> THEN 1
       ELSE IF CharRank(Head(a)) < CharRank(Head(b)) THEN -1
       ELSE IF CharRank(Head(a)) > CharRank(Head(b)) THEN 1
       ELSE ComparePrimary(Tail(a), Tail(b))

\* the last level of the default collation, for texts equal on the first:
\* at the first difference the lower-case letter comes first
RECURSIVE CompareCase(_, _)
CompareCase(a, b) ==
    IF a = <<>> \/ b = <<>> THEN 0
    ELSE IF Head(a) = Head(b) THEN CompareCase(Tail(a), Tail(b))
    ELSE IF Head(a) = ToLowerChar(Head(a)) THEN -1
    ELSE 1

\* String.prototype.localeCompare with the default locale
LocaleCompare(a, b) ==
    IF ComparePrimary(a, b) # 0 THEN ComparePrimary(a, b) ELSE CompareCase(a, b)

\* the comparator handed to familyMembers.sort
CompareFamilyMembers(a, b) ==
    IF getFamilyRolePriority(a.familyRole) # getFamilyRolePriority(b.familyRole)
    THEN getFamilyRolePriority(a.familyRole) - getFamilyRolePriority(b.familyRole)
    ELSE LocaleCompare(a.firstName, b.firstName)

\* Array.prototype.sort is stable: a member goes behind every member that
\* does not compare greater than it
RECURSIVE InsertSorted(_, _)
InsertSorted(sorted, member) ==
    IF sorted = <<>> THEN <<member>>
    ELSE IF CompareFamilyMembers(Head(sorted), member) <= 0
         THEN <<Head(sorted)>> \o InsertSorted(Tail(sorted), member)
         ELSE <<member>> \o sorted

RECURSIVE SortFamilyMembers(_)
SortFamilyMembers(familyMembers) ==
    IF familyMembers = <<>> THEN <<>>
    ELSE InsertSorted(SortFamilyMembers(SubSeq(familyMembers, 1, Len(familyMembers) - 1)),
                      familyMembers[Len(familyMembers)])

\* the null that selectFamilyRepresentative returns for an empty family
NoRepresentative == [personId |-> NoId]

selectFamilyRepresentative(familyMembers) ==
    IF Len(familyMembers) = 0 THEN NoRepresentative
    ELSE IF Len(familyMembers) = 1 THEN familyMembers[1]
    ELSE SortFamilyMembers(familyMembers)[1]

\* the names of the administrative rolls, all flagged exact
exclusionTabs ==
    << <<"E","l","d","e","r","s">>,
       <<"T","u","e","s","d","a","y"," ","S","c","h","o","o","l"," ",
         "W"," ","P","a","s","t","o","r"," ","D","o","u","g">>,
       <<"E","l","d","e","r","s"," ","A","n","d"," ",
         "E","l","d","e","r","s"," ","W","i","v","e","s">>,
       <<"E","l","d","e","r","s"," ","C","h","i","l","d","r","e","n"," ",
         "U","n","d","e","r"," ","1","8">> >>

\* a matcher that takes every tab whose name contains the name of a roll
IsExclusionTabBySubstring(sheetName) ==
    \E i \in 1..Len(exclusionTabs) :
        Includes(ToLowerCase(sheetName), ToLowerCase(exclusionTabs[i]))

\* exclusionTabs.find(...) finds a roll: every roll is exact, so the names are
\* compared whole, lower-cased
IsExclusionTab(sheetName) ==
    \E i \in 1..Len(exclusionTabs) :
        ToLowerCase(sheetName) = ToLowerCase(exclusionTabs[i])

\* the ids a roll adds to the set: the truthy cells of its 'Person ID' column
\* (none when the tab has only its header row or lacks the column)
TabPersonIds(sheet) ==
    {sheet.rows[i].personId : i \in 1..Len(sheet.rows)} \ {NoId}

\* a reader that gives up all exclusions when one roll cannot be read
getExcludedPersonIdsAllOrNothing(tagsFile, opens, unreadable) ==
    IF ~opens \/ \E k \in 1..Len(tagsFile) :
                     IsExclusionTab(tagsFile[k].name) /\ k \in unreadable
    THEN {}
    ELSE UNION {TabPersonIds(tagsFile[k]) :
                   k \in {n \in 1..Len(tagsFile) : IsExclusionTab(tagsFile[n].name)}}

\* opens: the tags export is found and opened (otherwise the outer catch
\* returns the empty set); unreadable: the tabs whose getDataRange().getValues()
\* throws (the inner catch skips such a tab)
getExcludedPersonIds(tagsFile, opens, unreadable) ==
    IF ~opens THEN {}
    ELSE UNION {TabPersonIds(tagsFile[k]) :
                   k \in {n \in 1..Len(tagsFile) :
                             /\ IsExclusionTab(tagsFile[n].name)
                             /\ n \notin unreadable}}

\* the Person IDs of the roster entries whose note marks them inactive
InactivePersonIds(sheetRows) ==
    {m.personId : m \in {getGCGMembersWithPersonId(sheetRows)[i] :
                            i \in {n \in 1..Len(getGCGMembersWithPersonId(sheetRows)) :
                                      isMarkedInactive(getGCGMembersWithPersonId(sheetRows)[n])}}}
        \ {NoId}

\* familyId && familyId !== 'null' && familyId !== ''
HasFamily(person) == person.familyId # NoFamily /\ person.familyId # "null"

\* the keys of the familyGroups Map, in insertion order
RECURSIVE FamilyIdsInOrder(_)
FamilyIdsInOrder(candidates) ==
    IF candidates = <<>> THEN <<>>
    ELSE LET before == FamilyIdsInOrder(SubSeq(candidates, 1, Len(candidates) - 1))
             person == candidates[Len(candidates)]
         IN IF HasFamily(person)
                /\ \A i \in 1..Len(before) : before[i] # person.familyId
            THEN Append(before, person.familyId)
            ELSE before

\* the array stored under a key of the familyGroups Map
FamilyMembersOf(candidates, familyId) ==
    SelectSeq(candidates, LAMBDA person : HasFamily(person) /\ person.familyId = familyId)

\* an entry of individualsWithoutFamily
WithoutFamily(person) ==
    [person EXCEPT !.familyId = NoFamily, !.familyRole = NoRole]

individualsWithoutFamily(candidates) ==
    LET alone == SelectSeq(candidates, LAMBDA person : ~HasFamily(person))
    IN [i \in 1..Len(alone) |-> WithoutFamily(alone[i])]

\* a selection that keeps every member of every family
RepresentativesOfEveryMember(candidates) ==
    SelectSeq(candidates, HasFamily) \o individualsWithoutFamily(candidates)

\* lines 229-269: one representative for each family, the individuals after
Representatives(candidates) ==
    LET familyIds == FamilyIdsInOrder(candidates)
        selected  == [i \in 1..Len(familyIds) |->
                         selectFamilyRepresentative(FamilyMembersOf(candidates, familyIds[i]))]
    IN SelectSeq(selected, LAMBDA r : r # NoRepresentative)
           \o individualsWithoutFamily(candidates)

\* the candidates of the declaration in force: the filter of the first
\* declaration (lines 219-224) drops the excluded and the inactive persons,
\* the filter of the second (lines 1970-1972) does not
notInGCGCandidates(copy, data, excluded, sheetRows) ==
    IF copy = 1
    THEN CHOOSE c \in {SelectSeq(data.membersWithGCGStatus,
                                 LAMBDA m : /\ ~m.gcgStatus.inGroup
                                            /\ m.isActiveMember
                                            /\ ~m.isSynthetic
                                            /\ m.personId \notin allExcludedIds) :
                          allExcludedIds \in {excluded \cup InactivePersonIds(sheetRows)}} : TRUE
    ELSE SelectSeq(data.membersWithGCGStatus,
                   LAMBDA m : /\ ~m.gcgStatus.inGroup
                              /\ m.isActiveMember
                              /\ ~m.isSynthetic)

calculateFamilyRepresentatives(copy, data, excluded, sheetRows) ==
    CHOOSE r \in {Representatives(candidates) :
                     candidates \in {notInGCGCandidates(copy, data, excluded, sheetRows)}} : TRUE

\* the data rows of the 'Not in a GCG' sheet that have a Person ID, as the
\* reader returns them; data rows start at sheet row 4
getCurrentNotInGCGMembers(sheetRows) ==
    SelectSeq([k \in 1..Len(sheetRows) |->
                  [personId  |-> sheetRows[k].personId,
                   firstName |-> sheetRows[k].firstName,
                   rowIndex  |-> k + 3]],
              LAMBDA p : p.personId # NoId)

\* new Set(list.map(p => p.personId))
PersonIdSet(list) == {list[i].personId : i \in 1..Len(list)}

\* a differ that lists every representative as an addition
NotInGCGAdditionsOfEveryRepresentative(shouldBeInNotInGCG, currentlyListed) ==
    shouldBeInNotInGCG

\* shouldBeInNotInGCG.filter(person => !currentlyListed.has(person.personId))
NotInGCGAdditions(shouldBeInNotInGCG, currentlyListed) ==
    SelectSeq(shouldBeInNotInGCG, LAMBDA person : person.personId \notin currentlyListed)

\* lines 67-76: why a listed person is not to be listed
DeletionReason(data, personId) ==
    LET members == data.membersWithGCGStatus
        i == FirstIndex({n \in 1..Len(members) : members[n].personId = personId})
    IN IF i = 0
       THEN [text |-> "No longer in active members", groupName |-> <<>>]
       ELSE IF members[i].gcgStatus.inGroup
       THEN [text |-> "Now in GCG: ", groupName |-> members[i].gcgStatus.groupName]
       ELSE IF members[i].isSynthetic
       THEN [text |-> "Data inconsistency - not in active members export",
             groupName |-> <<>>]
       ELSE [text |-> "Unknown", groupName |-> <<>>]

\* lines 79-91: the deletion record of the first declaration
Deletion(data, currentPerson) ==
    LET members == data.membersWithGCGStatus
        i == FirstIndex({n \in 1..Len(members) :
                            members[n].personId = currentPerson.personId})
    IN [personId   |-> currentPerson.personId,
        firstName  |-> currentPerson.firstName,
        familyId   |-> IF i = 0 THEN NoFamily ELSE members[i].familyId,
        familyRole |-> IF i = 0 THEN NoRole ELSE members[i].familyRole,
        reason     |-> DeletionReason(data, currentPerson.personId),
        rowIndex   |-> currentPerson.rowIndex]

\* the listed persons that are not to be listed: the first declaration builds
\* a record with a reason, the second returns the rows as read
NotInGCGDeletions(copy, data, currentNotInGCG, shouldBeListed) ==
    LET leaving == SelectSeq(currentNotInGCG,
                             LAMBDA p : p.personId \notin shouldBeListed)
    IN IF copy = 1
       THEN [i \in 1..Len(leaving) |-> Deletion(data, leaving[i])]
       ELSE leaving

calculateNotInGCGChangesWithFamilyLogic(copy, data, sheetRows, shouldBeInNotInGCG) ==
    LET currentNotInGCG == getCurrentNotInGCGMembers(sheetRows)
    IN [additions |->
            NotInGCGAdditions(shouldBeInNotInGCG, PersonIdSet(currentNotInGCG)),
        deletions |->
            NotInGCGDeletions(copy, data, currentNotInGCG,
                              PersonIdSet(shouldBeInNotInGCG)),
        familyGroupsProcessed |-> Len(shouldBeInNotInGCG)]

----------------------------------------------------------------------------
(* The family specification: a snapshot with family data, a 'Not in a GCG' *)
(* sheet, an Elders roll and a roster note, and the comparison run on them.*)

FirstAmy == <<"A","m","y">>
FirstZoe == <<"Z","o","e">>

\* a member of membersWithGCGStatus of parseRealGCGDataWithFamilyInfo: a
\* member with a group assignment is in Gene Cone's group
FamilyMember(personId, firstName, familyId, familyRole, grouped, synthetic) ==
    [personId       |-> personId,
     firstName      |-> firstName,
     lastName       |-> LastLi,
     isActiveMember |-> ~synthetic,
     isSynthetic    |-> synthetic,
     familyId       |-> familyId,
     familyRole     |-> familyRole,
     gcgStatus      |->
         GcgStatus([p \in (IF grouped THEN {personId} ELSE {}) |->
                       [groupName |-> GeneCone, leader |-> GeneCone, coLeader |-> <<>>]],
                   personId)]

\* the members a person can be.  "100" is Amy, "101" is Amy or Zoe;
\* 'Grandchild' is a role the priority table lacks.  A member of the active
\* export is grouped or not; a synthetic member ("101" only) always has a
\* group assignment and no family data
FamilyMembersFor(p) ==
    LET firstNames  == IF p = "100" THEN {FirstAmy} ELSE {FirstAmy, FirstZoe}
        familyIds   == IF p = "100" THEN {NoFamily, "F1"} ELSE {NoFamily, "F1", "F2"}
        familyRoles == IF p = "100"
                       THEN {"Head of Household", "Adult", NoRole}
                       ELSE {"Adult", "Child", "Unassigned", NoRole, "Grandchild"}
    IN {FamilyMember(p, firstName, familyId, familyRole, grouped, FALSE) :
           firstName \in firstNames, familyId \in familyIds,
           familyRole \in familyRoles, grouped \in BOOLEAN}
       \cup
       (IF p = "100" THEN {}
        ELSE {FamilyMember(p, firstName, NoFamily, NoRole, TRUE, TRUE) :
                 firstName \in firstNames})

\* the snapshot holds the persons of the export in either order; the 'Not in
\* a GCG' sheet is empty or lists one person, both, or a row without Person
\* ID above a person; the tags export has an Elders roll that is empty or
\* lists "101"; the roster is empty or has an entry with the note 'Moved
\* away' that carries the Person ID "101" or, without Person ID, the name
\* Amy Li
FamilyInit ==
    /\ exportData \in
           {[NoExportData EXCEPT !.membersWithGCGStatus = members] :
               members \in
                   {<<>>}
                   \cup {<<m>> : m \in FamilyMembersFor("100") \cup FamilyMembersFor("101")}
                   \cup {<<a, b>> : a \in FamilyMembersFor("100"),
                                    b \in FamilyMembersFor("101")}
                   \cup {<<b, a>> : a \in FamilyMembersFor("100"),
                                    b \in FamilyMembersFor("101")}}
    /\ notInGCGSheet \in
           LET NotInGCGRow(personId) == [personId |-> personId, firstName |-> FirstAmy]
           IN { <<>>,
                <<NotInGCGRow("101")>>,
                <<NotInGCGRow("100"), NotInGCGRow("101")>>,
                <<NotInGCGRow(NoId), NotInGCGRow("100")>> }
    /\ tags \in
           { << [name |-> TabElders, rows |-> <<>>] >>,
             << [name |-> TabElders,
                 rows |-> << [personId |-> "101", firstName |-> FirstAmy,
                              lastName |-> LastLi] >>] >> }
    /\ roster \in
           { <<>>,
             << [personId |-> "101", firstName |-> FirstAmy, lastName |-> LastLi,
                 group |-> GeneCone, actionSteps |-> NoteMovedAway] >>,
             << [personId |-> NoId, firstName |-> FirstAmy, lastName |-> LastLi,
                 group |-> GeneCone, actionSteps |-> NoteMovedAway] >> }
    /\ engineCopy \in {1, 2}
    /\ tagsFileOpens = TRUE
    /\ unreadableTabs = {}
    /\ excludedIds = {}
    /\ representatives = <<>>
    /\ notInGCGChanges = NoNotInGCGChanges
    /\ directory = <<>>
    /\ changes = NoChanges
    /\ phase = "idle"
    /\ reflects = FALSE
    /\ NoTextRun
    /\ NoFlowRun

\* the preview's helper: read the sheet, select the representatives with the
\* declaration in force (only the first one resolves exclusions), and diff
calculateNotInGCGChanges ==
    /\ excludedIds' = IF engineCopy = 1
                      THEN getExcludedPersonIds(tags, tagsFileOpens, unreadableTabs)
                      ELSE excludedIds
    /\ representatives' =
           calculateFamilyRepresentatives(engineCopy, exportData, excludedIds', roster)
    /\ notInGCGChanges' =
           calculateNotInGCGChangesWithFamilyLogic(engineCopy, exportData,
                                                   notInGCGSheet, representatives')
    /\ phase' = "notInGCG"
    /\ UNCHANGED <<roster, directory, tags, exportData, changes, reflects>>
    /\ UNCHANGED <<notInGCGSheet, engineCopy, tagsFileOpens, unreadableTabs>>
    /\ UNCHANGED textVars
    /\ UNCHANGED flowVars

FamilySpec == FamilyInit /\ [][calculateNotInGCGChanges]_vars

\* the 'Not in a GCG' comparison has run on the state's inputs
NotInGCGCompared == phase = "notInGCG"

----------------------------------------------------------------------------
(* Vocabulary of the family claims.                                        *)

\* the candidates the representatives of the state were selected from
Candidates == notInGCGCandidates(engineCopy, exportData, excludedIds, roster)

\* the positions of the candidates that belong to a family
FamilyCandidates == {i \in 1..Len(Candidates) : HasFamily(Candidates[i])}

\* the family ids that have at least one candidate
CandidateFamilies == {Candidates[i].familyId : i \in FamilyCandidates}

\* the positions of the representatives of a family
RepresentativesOfFamily(familyId) ==
    {i \in 1..Len(representatives) : representatives[i].familyId = familyId}

----------------------------------------------------------------------------
(* C11: calculateFamilyRepresentatives returns exactly one representative  *)
(* for each family id that has at least one candidate, that representative *)
(* being a candidate of the family, and returns every candidate without a  *)
(* family id as its own entry with the same Person ID; it returns nothing  *)
(* else.                                                                    *)
C11_OneRepresentativePerFamily ==
    LET LoneCandidates == {i \in 1..Len(Candidates) : ~HasFamily(Candidates[i])}
        RepresentativesWithId(personId) ==
            {i \in 1..Len(representatives) : representatives[i].personId = personId}
    IN NotInGCGCompared =>
        /\ \A familyId \in CandidateFamilies :
               /\ Cardinality(RepresentativesOfFamily(familyId)) = 1
               /\ \A r \in RepresentativesOfFamily(familyId) :
                      \E i \in FamilyCandidates : Candidates[i] = representatives[r]
        /\ \A i \in LoneCandidates :
               /\ Cardinality(RepresentativesWithId(Candidates[i].personId)) = 1
               /\ \A r \in RepresentativesWithId(Candidates[i].personId) :
                      representatives[r] = WithoutFamily(Candidates[i])
        /\ Len(representatives)
               = Cardinality(CandidateFamilies) + Cardinality(LoneCandidates)

\* a family of two candidates got one representative
C11_Witness ==
    /\ NotInGCGCompared
    /\ Cardinality(FamilyCandidates) = 2
    /\ Cardinality(CandidateFamilies) = 1
    /\ Len(representatives) = 1

----------------------------------------------------------------------------
(* C12: for a family with two or more candidates the representative has    *)
(* the minimal role priority and, among the candidates of that priority,   *)
(* the first name that sorts first.                                        *)

\* the positions of the candidates of a family
CandidatesOfFamily(familyId) ==
    {i \in FamilyCandidates : Candidates[i].familyId = familyId}

\* the families with two or more candidates
LargeFamilies == {f \in CandidateFamilies : Cardinality(CandidatesOfFamily(f)) >= 2}

\* the representative selected for a family
RepresentativeOfFamily(familyId) ==
    representatives[CHOOSE r \in RepresentativesOfFamily(familyId) : TRUE]

\* C12 as stated, with 'Unassigned' and a missing role tied at 5
C12_Original ==
    LET StatedRolePriority(familyRole) ==
            CASE familyRole = "Head of Household" -> 1
              [] familyRole = "Spouse"            -> 2
              [] familyRole = "Adult"             -> 3
              [] familyRole = "Child"             -> 4
              [] OTHER                            -> 5
    IN NotInGCGCompared =>
        \A f \in LargeFamilies : \A i \in CandidatesOfFamily(f) :
            \/ StatedRolePriority(RepresentativeOfFamily(f).familyRole)
                   < StatedRolePriority(Candidates[i].familyRole)
            \/ /\ StatedRolePriority(RepresentativeOfFamily(f).familyRole)
                      = StatedRolePriority(Candidates[i].familyRole)
               /\ LocaleCompare(RepresentativeOfFamily(f).firstName,
                                Candidates[i].firstName) <= 0

(* C12 (amended): the representative of a family with two or more          *)
(* candidates has the minimal role priority under the table head of        *)
(* household=1, spouse=2, adult=3, child=4, unassigned=5, missing or       *)
(* unrecognised=99; among the candidates of that priority it has the first *)
(* name that sorts first, and among those equal on both it is the one      *)
(* listed first.  'Unassigned' therefore wins over a missing role.         *)
C12_MinimalPriorityThenFirstName ==
    LET ActualRolePriority(familyRole) ==
            CASE familyRole = "Head of Household" -> 1
              [] familyRole = "Spouse"            -> 2
              [] familyRole = "Adult"             -> 3
              [] familyRole = "Child"             -> 4
              [] familyRole = "Unassigned"        -> 5
              [] OTHER                            -> 99
        \* the candidates of a family that no other candidate of the family
        \* beats on priority or, at equal priority, on first name
        BestOfFamily(f) ==
            {i \in CandidatesOfFamily(f) : \A j \in CandidatesOfFamily(f) :
                \/ ActualRolePriority(Candidates[i].familyRole)
                       < ActualRolePriority(Candidates[j].familyRole)
                \/ /\ ActualRolePriority(Candidates[i].familyRole)
                          = ActualRolePriority(Candidates[j].familyRole)
                   /\ LocaleCompare(Candidates[i].firstName,
                                    Candidates[j].firstName) <= 0}
    IN NotInGCGCompared =>
        \A f \in LargeFamilies :
            /\ BestOfFamily(f) # {}
            /\ RepresentativeOfFamily(f) = Candidates[FirstIndex(BestOfFamily(f))]

\* 'Unassigned' Zoe and Amy without a role are one family: Zoe represents it
C12_Witness ==
    /\ NotInGCGCompared
    /\ \E f \in LargeFamilies :
           /\ \E i, j \in CandidatesOfFamily(f) :
                  /\ Candidates[i].familyRole = "Unassigned"
                  /\ Candidates[i].firstName = FirstZoe
                  /\ Candidates[j].familyRole = NoRole
                  /\ Candidates[j].firstName = FirstAmy
           /\ RepresentativeOfFamily(f).firstName = FirstZoe

----------------------------------------------------------------------------
(* C13: family selection does not depend on input order: for every family  *)
(* of the snapshot and every permutation of its candidate list,            *)
(* selectFamilyRepresentative returns the same person.                     *)
C13_SelectionIgnoresOrder ==
    NotInGCGCompared =>
        \A f \in LargeFamilies :
            \A perm \in Permutations(1..Len(FamilyMembersOf(Candidates, f))) :
                selectFamilyRepresentative(
                    [i \in 1..Len(FamilyMembersOf(Candidates, f)) |->
                        FamilyMembersOf(Candidates, f)[perm[i]]]).personId
                    = selectFamilyRepresentative(FamilyMembersOf(Candidates, f)).personId

----------------------------------------------------------------------------
(* C14: no person is a representative or an addition to the 'Not in a GCG' *)
(* list if they have a group assignment in the snapshot, are synthetic or  *)
(* not an active member, are listed in an administrative roll, or have a   *)
(* roster row whose note classifies them as inactive.                      *)

C14_ExcludedPersonsAreNotListed ==
    LET ExportMembersWithId(personId) ==
            {i \in 1..Len(exportData.membersWithGCGStatus) :
                exportData.membersWithGCGStatus[i].personId = personId}
        \* the person is listed in an administrative roll of the tags export
        OnAdministrativeRoll(personId) ==
            \E k \in 1..Len(tags) :
                /\ IsExclusionTab(tags[k].name)
                /\ personId \in TabPersonIds(tags[k])
        \* the roster has a row of the member (the row carries the member's
        \* Person ID or, lacking a Person ID, the member's name) whose note is
        \* an inactive note
        NotedInactive(m) ==
            \E k \in 1..Len(roster) :
                /\ roster[k].actionSteps \in InactiveNotes
                /\ \/ roster[k].personId = m.personId
                   \/ /\ roster[k].personId = NoId
                      /\ RowNameKey(k) = NameKey(m.firstName, m.lastName)
    IN NotInGCGCompared =>
        \A id \in PersonIdSet(representatives) \cup PersonIdSet(notInGCGChanges.additions) :
            \A i \in ExportMembersWithId(id) :
                /\ ~exportData.membersWithGCGStatus[i].gcgStatus.inGroup
                /\ exportData.membersWithGCGStatus[i].isActiveMember
                /\ ~exportData.membersWithGCGStatus[i].isSynthetic
                /\ ~OnAdministrativeRoll(id)
                /\ ~NotedInactive(exportData.membersWithGCGStatus[i])

----------------------------------------------------------------------------
(* C15: the additions are exactly the representatives whose Person ID is   *)
(* not in the current 'Not in a GCG' list, the removals are exactly the    *)
(* current rows with a Person ID that is not a representative's; so the    *)
(* two are disjoint and (current minus removals) plus additions has the    *)
(* Person IDs of the representatives.                                      *)

C15_AdditionsAndRemovalsAreTheDifference ==
    LET \* the Person IDs on the 'Not in a GCG' sheet
        CurrentlyListedIds ==
            {notInGCGSheet[k].personId : k \in 1..Len(notInGCGSheet)} \ {NoId}
        \* the sheet rows (1-based data rows) that a removal record names
        RemovedNotInGCGRows ==
            {notInGCGChanges.deletions[i].rowIndex - 3 :
                i \in 1..Len(notInGCGChanges.deletions)}
    IN NotInGCGCompared =>
        /\ {notInGCGChanges.additions[i] : i \in 1..Len(notInGCGChanges.additions)}
               = {representatives[i] :
                     i \in {n \in 1..Len(representatives) :
                               representatives[n].personId \notin CurrentlyListedIds}}
        /\ Len(notInGCGChanges.additions)
               = Cardinality({n \in 1..Len(representatives) :
                                 representatives[n].personId \notin CurrentlyListedIds})
        /\ RemovedNotInGCGRows
               = {k \in 1..Len(notInGCGSheet) :
                     /\ notInGCGSheet[k].personId # NoId
                     /\ notInGCGSheet[k].personId \notin PersonIdSet(representatives)}
        /\ Len(notInGCGChanges.deletions) = Cardinality(RemovedNotInGCGRows)
        /\ \A i \in 1..Len(notInGCGChanges.deletions) :
               notInGCGChanges.deletions[i].personId
                   = notInGCGSheet[notInGCGChanges.deletions[i].rowIndex - 3].personId
        /\ PersonIdSet(notInGCGChanges.additions)
               \cap PersonIdSet(notInGCGChanges.deletions) = {}
        /\ (CurrentlyListedIds \ PersonIdSet(notInGCGChanges.deletions))
               \cup PersonIdSet(notInGCGChanges.additions)
               = PersonIdSet(representatives)

\* the sheet lists "101" only and the representative is "100": one addition
\* and one removal
C15_Witness ==
    /\ NotInGCGCompared
    /\ Len(representatives) = 1
    /\ Len(notInGCGChanges.additions) = 1
    /\ Len(notInGCGChanges.deletions) = 1
    /\ notInGCGChanges.additions[1].personId = "100"
    /\ notInGCGChanges.deletions[1].personId = "101"

----------------------------------------------------------------------------
(* C16: every removal record carries a reason that says the person now has *)
(* a group assignment, is no longer an active member, is now excluded as   *)
(* inactive or administrative, or lost the family-representative status to *)
(* another household member; the last is the reason when a listed          *)
(* candidate is not removed for any other cause but another member of the  *)
(* family represents it (Amy, head of household, and Zoe, child, both      *)
(* without a group, the list holding Zoe).                                 *)

C16_RemovalsCarryAReason ==
    LET GroupReasons    == {"Now in GCG: "}
        MemberReasons   == {"No longer in active members",
                            "Data inconsistency - not in active members export"}
        ExcludedReasons == {"Now excluded as inactive or administrative"}
        FamilyReasons   == {"Lost family-representative status"}
        \* the removals of persons who are still candidates while another
        \* member represents the family
        LostRepresentativeStatus ==
            {i \in 1..Len(notInGCGChanges.deletions) :
                \E c \in FamilyCandidates :
                    /\ Candidates[c].personId = notInGCGChanges.deletions[i].personId
                    /\ RepresentativeOfFamily(Candidates[c].familyId).personId
                           # Candidates[c].personId}
    IN NotInGCGCompared =>
        /\ \A i \in 1..Len(notInGCGChanges.deletions) :
               /\ "reason" \in DOMAIN notInGCGChanges.deletions[i]
               /\ notInGCGChanges.deletions[i].reason.text
                      \in GroupReasons \cup MemberReasons
                              \cup ExcludedReasons \cup FamilyReasons
        /\ \A i \in LostRepresentativeStatus :
               notInGCGChanges.deletions[i].reason.text \in FamilyReasons

----------------------------------------------------------------------------
(* The text specification: a group label or a note, and the two text       *)
(* functions of the comparison applied to it.                              *)

MaxTextLen == 3

\* every text up to the bound over a capital, a small letter, a blank and the
\* co-leader separator, with notes as they are found in the 'Action Steps /
\* Comments' column and group labels as they are found in the 'Group' column
Texts ==
    UNION {[1..n -> {"A", "a", " ", "&"}] : n \in 0..MaxTextLen}
    \cup {NoteMovedAway}
    \cup
    { <<"i","n","a","c","t","i","v","e">>,
      <<"I","N","A","C","T","I","V","E">>,
      <<"N","O","T"," ","i","n","a","c","t","i","v","e">>,
      <<"I","s"," ","I","n","a","c","t","i","v","e"," ","n","o","w">>,
      <<"N","o"," ","L","o","n","g","e","r"," ","A","c","t","i","v","e">>,
      <<"n","o"," ","l","o","n","g","e","r"," "," ","a","c","t","i","v","e">>,
      <<"l","e","f","t"," ","c","h","u","r","c","h">>,
      <<"L","e","f","t"," ","C","h","u","r","c","h","!">>,
      <<"T","r","a","n","s","f","e","r","r","e","d">>,
      <<"t","r","a","n","s","f","e","r">>,
      <<"t","r","a","n","s","f","e","r","r","e">>,
      <<"a","c","t","i","v","e">>,
      <<"m","o","v","e","d"," "," ","a","w","a","y">>,
      <<"M","o","v","e","d">>,
      <<"x">> }
    \cup
    { <<"G","e","n","e"," ","C","o","n","e">>,
      <<"G","e","n","e"," ","C","o","n","e"," ","&"," ","S","c","o","t","t"," ","S","t","r","i","n","g","e","r">>,
      <<"g","e","n","e"," ","c","o","n","e">>,
      <<" ","G","e","n","e"," ","C","o","n","e"," "," ","&","S","c","o","t","t">>,
      <<"G","e","n","e"," ","C","o","n","e","&">>,
      <<"&"," ","S","c","o","t","t">>,
      <<"A","l","&","B","o","&","C","y">> }

TextInit ==
    /\ text \in Texts
    /\ textResult = <<>>
    /\ sheetValues = <<>>
    /\ inactiveFile = [found |-> FALSE, rows |-> <<>>]
    /\ parsed = <<>>
    /\ phase = "idle"
    /\ roster = <<>>
    /\ directory = <<>>
    /\ tags = <<>>
    /\ exportData = NoExportData
    /\ changes = NoChanges
    /\ reflects = FALSE
    /\ NoNotInGCGRun
    /\ NoFlowRun

\* the comparison normalises the group label of a row
NormalizeGroupLabel ==
    /\ textResult' = normalizeGroupName(text)
    /\ phase' = "normalized"
    /\ UNCHANGED <<text, roster, directory, tags, exportData, changes, reflects>>
    /\ UNCHANGED <<sheetValues, inactiveFile, parsed>>
    /\ UNCHANGED notInGCGVars
    /\ UNCHANGED flowVars

\* the comparison classifies the note of a row
ClassifyNote ==
    /\ textResult' = isMarkedInactive([actionSteps |-> text])
    /\ phase' = "classified"
    /\ UNCHANGED <<text, roster, directory, tags, exportData, changes, reflects>>
    /\ UNCHANGED <<sheetValues, inactiveFile, parsed>>
    /\ UNCHANGED notInGCGVars
    /\ UNCHANGED flowVars

TextSpec == TextInit /\ [][NormalizeGroupLabel \/ ClassifyNote]_vars

----------------------------------------------------------------------------
(* C17: normalizeGroupName returns the text left of the first '&' with its *)
(* leading and trailing blanks removed (the whole text when it has no      *)
(* '&'), the empty text for the empty text, and changes no letter's case:  *)
(* a label with a co-leader normalises like the leader alone, and labels   *)
(* that differ in case normalise to different keys.                        *)

C17_NormalizedIsTrimmedLeftSegment ==
    LET \* the length of the part of text left of its first '&'
        LeftOfAmpersand ==
            IF \E i \in 1..Len(text) : text[i] = "&"
            THEN FirstIndex({i \in 1..Len(text) : text[i] = "&"}) - 1
            ELSE Len(text)
        \* co-leader names a label may carry after the '&'
        CoLeaders == {FirstBo, BoRa, <<"a">>}
    IN phase = "normalized" =>
        /\ \A i \in 1..Len(textResult) : textResult[i] # "&"
        /\ textResult # <<>> =>
               textResult[1] # " " /\ textResult[Len(textResult)] # " "
        /\ \E i \in 0..LeftOfAmpersand : \E j \in i..LeftOfAmpersand :
               /\ SubSeq(text, i + 1, j) = textResult
               /\ \A k \in (1..i) \cup ((j + 1)..LeftOfAmpersand) : text[k] = " "
        /\ text = <<>> => textResult = <<>>
        /\ LeftOfAmpersand = Len(text) =>
               \A coLeader \in CoLeaders :
                   /\ normalizeGroupName(text \o <<" ","&"," ">> \o coLeader) = textResult
                   /\ normalizeGroupName(text \o <<"&">> \o coLeader) = textResult
        /\ normalizeGroupName(ToLowerCase(text)) = ToLowerCase(textResult)
        /\ textResult # ToLowerCase(textResult) =>
               normalizeGroupName(ToLowerCase(text)) # textResult

\* 'Gene Cone & Scott Stringer' was normalised to 'Gene Cone'
C17_Witness ==
    /\ phase = "normalized"
    /\ text = GeneConeAndScott
    /\ textResult = GeneCone

----------------------------------------------------------------------------
(* C18: isMarkedInactive is true exactly when the lower-cased note has one *)
(* of 'inactive', 'moved away', 'no longer active', 'left church',         *)
(* 'transferred' as a substring; an empty note gives false, and a negated  *)
(* note such as 'NOT inactive' gives true.                                 *)
C18_InactiveIffNoteContainsPhrase ==
    LET phrases ==
            { <<"i","n","a","c","t","i","v","e">>,
              <<"m","o","v","e","d"," ","a","w","a","y">>,
              <<"n","o"," ","l","o","n","g","e","r"," ","a","c","t","i","v","e">>,
              <<"l","e","f","t"," ","c","h","u","r","c","h">>,
              <<"t","r","a","n","s","f","e","r","r","e","d">> }
        OccursAt(phrase, p) ==
            /\ p + Len(phrase) - 1 <= Len(text)
            /\ \A k \in 1..Len(phrase) : ToLowerChar(text[p + k - 1]) = phrase[k]
    IN phase = "classified" =>
        /\ textResult = (\E phrase \in phrases : \E p \in 1..Len(text) : OccursAt(phrase, p))
        /\ text = <<>> => textResult = FALSE

\* the note 'NOT inactive' was classified as inactive
C18_Witness ==
    /\ phase = "classified"
    /\ text = <<"N","O","T"," ","i","n","a","c","t","i","v","e">>
    /\ textResult = TRUE

----------------------------------------------------------------------------
(* The exclusion specification: a tags export of two tabs, which may fail  *)
(* to open or have tabs that cannot be read, and the runs that resolve the *)
(* administrative exclusions from it.                                      *)

\* the tabs of a tags export.  Names: rolls in several cases, tabs whose name
\* contains the name of a roll, and a small-group tab that shares a word with
\* one.  Rows: none, one person, a row without Person ID above a person, both
\* persons
ExclusionTabs ==
    [name :
        { <<"E","l","d","e","r","s">>,
          <<"E","L","D","E","R","S">>,
          <<"e","l","d","e","r","s"," ","a","n","d"," ","e","l","d","e","r","s"," ","w","i","v","e","s">>,
          <<"E","l","d","e","r","s"," ","C","h","i","l","d","r","e","n">>,
          <<"E","l","d","e","r","s"," ","C","h","i","l","d","r","e","n"," ","U","n","d","e","r"," ","1","8">>,
          <<"T","u","e","s","d","a","y"," ","S","c","h","o","o","l"," ","W"," ","P","a","s","t","o","r"," ","D","o","u","g">>,
          <<"G","c","g"," ","E","l","d","e","r","s"," ","L","i">> },
     rows :
        { <<>>,
          << ExportRow("100", [p \in Persons |-> FirstAmy]) >>,
          << [personId |-> NoId, firstName |-> FirstZoe, lastName |-> LastLi],
             ExportRow("101", [p \in Persons |-> FirstZoe]) >>,
          << ExportRow("100", [p \in Persons |-> FirstAmy]),
             ExportRow("101", [p \in Persons |-> FirstZoe]) >> }]

\* a tags export of two tabs; the snapshot holds Amy "100" and Zoe "101",
\* active, without group and without family
ExclusionInit ==
    /\ tags \in {<<first, second>> : first \in ExclusionTabs, second \in ExclusionTabs}
    /\ tagsFileOpens \in BOOLEAN
    /\ unreadableTabs \in SUBSET {1, 2}
    /\ engineCopy \in {1, 2}
    /\ exportData =
           [NoExportData EXCEPT !.membersWithGCGStatus =
               << FamilyMember("100", FirstAmy, NoFamily, NoRole, FALSE, FALSE),
                  FamilyMember("101", FirstZoe, NoFamily, NoRole, FALSE, FALSE) >>]
    /\ notInGCGSheet = <<>>
    /\ excludedIds = {}
    /\ representatives = <<>>
    /\ notInGCGChanges = NoNotInGCGChanges
    /\ roster = <<>>
    /\ directory = <<>>
    /\ changes = NoChanges
    /\ phase = "idle"
    /\ reflects = FALSE
    /\ NoTextRun
    /\ NoFlowRun

\* the exclusions are resolved on their own
debugExclusions ==
    /\ excludedIds' = getExcludedPersonIds(tags, tagsFileOpens, unreadableTabs)
    /\ phase' = "exclusions"
    /\ UNCHANGED <<roster, directory, tags, exportData, changes, reflects>>
    /\ UNCHANGED <<notInGCGSheet, engineCopy, tagsFileOpens, unreadableTabs,
                   representatives, notInGCGChanges>>
    /\ UNCHANGED textVars
    /\ UNCHANGED flowVars

ExclusionSpec == ExclusionInit /\ [][debugExclusions \/ calculateNotInGCGChanges]_vars

\* excludedIds is the result of getExcludedPersonIds on the state's inputs
ExclusionsResolved ==
    \/ phase = "exclusions"
    \/ phase = "notInGCG" /\ engineCopy = 1

----------------------------------------------------------------------------
(* C19: getExcludedPersonIds collects ids only from tabs whose name equals *)
(* an allow-listed administrative name when case is ignored; a tab whose   *)
(* name only contains such a name contributes nothing; when every tab can  *)
(* be read the result is the union of the ids of the matched tabs.         *)
C19_OnlyExactlyNamedRollsExclude ==
    LET allowed ==
            { <<"E","l","d","e","r","s">>,
              <<"T","u","e","s","d","a","y"," ","S","c","h","o","o","l"," ","W"," ","P","a","s","t","o","r"," ","D","o","u","g">>,
              <<"E","l","d","e","r","s"," ","A","n","d"," ","E","l","d","e","r","s"," ","W","i","v","e","s">>,
              <<"E","l","d","e","r","s"," ","C","h","i","l","d","r","e","n"," ","U","n","d","e","r"," ","1","8">> }
        Matches(k) == \E name \in allowed : ToLowerCase(tags[k].name) = ToLowerCase(name)
        Listed(k) == {tags[k].rows[i].personId : i \in 1..Len(tags[k].rows)} \ {NoId}
    IN ExclusionsResolved =>
        /\ \A id \in excludedIds : \E k \in 1..Len(tags) : Matches(k) /\ id \in Listed(k)
        /\ tagsFileOpens /\ unreadableTabs = {} =>
               excludedIds = UNION {Listed(k) : k \in {n \in 1..Len(tags) : Matches(n)}}

\* 'Elders Children' lists "100", 'ELDERS' lists "101": only "101" is excluded
C19_Witness ==
    /\ ExclusionsResolved
    /\ tagsFileOpens
    /\ unreadableTabs = {}
    /\ tags[1].name = <<"E","l","d","e","r","s"," ","C","h","i","l","d","r","e","n">>
    /\ TabPersonIds(tags[1]) = {"100"}
    /\ tags[2].name = <<"E","L","D","E","R","S">>
    /\ TabPersonIds(tags[2]) = {"101"}
    /\ excludedIds = {"101"}

----------------------------------------------------------------------------
(* C20: a failure while reading an exclusion source does not abort the     *)
(* run: a roll that cannot be read is skipped and the ids of the other     *)
(* matched tabs are returned; when the tags export cannot be opened the    *)
(* result is the empty set; the comparison goes on with the set obtained.  *)
C20_ReadFailuresShrinkTheExclusions ==
    LET \* the tabs that match a roll and can be read
        ReadableRolls ==
            {k \in 1..Len(tags) :
                IsExclusionTab(tags[k].name) /\ k \notin unreadableTabs}
    IN ExclusionsResolved =>
        /\ tagsFileOpens =>
               excludedIds = UNION {TabPersonIds(tags[k]) : k \in ReadableRolls}
        /\ ~tagsFileOpens => excludedIds = {}
        /\ phase = "notInGCG" =>
               PersonIdSet(representatives) = {"100", "101"} \ excludedIds

\* the first roll lists "100" and cannot be read, the second lists "101": the
\* comparison ran with "101" excluded and "100" as representative
C20_Witness ==
    /\ phase = "notInGCG"
    /\ engineCopy = 1
    /\ tagsFileOpens
    /\ unreadableTabs = {1}
    /\ IsExclusionTab(tags[1].name)
    /\ TabPersonIds(tags[1]) = {"100"}
    /\ IsExclusionTab(tags[2].name)
    /\ excludedIds = {"101"}
    /\ PersonIdSet(representatives) = {"100"}

----------------------------------------------------------------------------
(* C28 as stated: when several roster entries without a Person ID carry    *)
(* the full name of a truth-data member, the name fallback matches the     *)
(* first of them in roster order.                                          *)
C28_Original ==
    Compared =>
        \A u \in IdBackfills : \A n \in ActiveEntries :
            (/\ roster[n].personId = NoId
             /\ RowNameKey(n)
                    = NameKey(u.exportMember.firstName, u.exportMember.lastName))
            => u.member.rowIndex - 1 <= n

(* C28: when several roster entries that are not marked inactive and have  *)
(* no Person ID carry the full name of a truth-data member, the name       *)
(* fallback matches the last of them in roster order (the name map is      *)
(* filled in roster order and a later entry replaces an earlier one).      *)
C28_NameFallbackMatchesLastEntry ==
    Compared =>
        \A u \in IdBackfills :
            /\ u.member.rowIndex - 1 \in ActiveEntries
            /\ roster[u.member.rowIndex - 1].personId = NoId
            /\ RowNameKey(u.member.rowIndex - 1)
                   = NameKey(u.exportMember.firstName, u.exportMember.lastName)
            /\ \A n \in ActiveEntries :
                   (/\ roster[n].personId = NoId
                    /\ RowNameKey(n)
                           = NameKey(u.exportMember.firstName, u.exportMember.lastName))
                   => n <= u.member.rowIndex - 1

C28_Witness ==
    /\ Compared
    /\ \E u \in IdBackfills : \E n \in ActiveEntries :
           /\ n < u.member.rowIndex - 1
           /\ roster[n].personId = NoId
           /\ RowNameKey(n)
                  = NameKey(u.exportMember.firstName, u.exportMember.lastName)
           /\ roster[n].group # roster[u.member.rowIndex - 1].group

----------------------------------------------------------------------------
(* C30: a truth-data group member is not in additions when the roster has  *)
(* an entry for the member (an entry with the member's Person ID, or an    *)
(* entry without Person ID that carries the member's full name) and every  *)
(* such entry is marked inactive.                                          *)
C30_MemberOfInactiveEntryIsNotAdded ==
    Compared =>
        \A m \in GroupMembers :
            LET own == {k \in Entries :
                           \/ roster[k].personId = m.personId
                           \/ /\ roster[k].personId = NoId
                              /\ RowNameKey(k) = NameKey(m.firstName, m.lastName)}
            IN (own # {} /\ own \subseteq InactiveEntries)
                   => m.personId \notin AdditionIds

----------------------------------------------------------------------------
(* menu-system.js: applyUpdatesWithConfirmation.  Every ui.alert blocks    *)
(* the script until the user answers, so the flow is a sequence of steps   *)
(* (phase "review", "final", "processing", then "applied", "failed" or     *)
(* "ended"), and the shared spreadsheet and the Drive folder can change    *)
(* between two steps.                                                      *)

\* one roster row at most, any of three taggings of person "100", with or
\* without the tags export in the Drive folder
ConfirmInit ==
    /\ roster \in {rows \in Rosters :
                      /\ Len(rows) <= 1
                      /\ \A k \in 1..Len(rows) :
                             rows[k].actionSteps = NoNote /\ rows[k].group # SentinelX}
    /\ directory = DirectoryOf(Persons, [p \in Persons |-> FirstAl])
    /\ \E choice \in {t \in TagChoices : t["100"] <= 2 /\ t["101"] = 0} :
           tags = TagsOf(choice, [p \in Persons |-> FirstAl])
    /\ exportData = NoExportData
    /\ changes = NoChanges
    /\ phase = "idle"
    /\ reflects = FALSE
    /\ tagsFileOpens \in BOOLEAN
    /\ notInGCGSheet = <<>> /\ engineCopy = 1 /\ unreadableTabs = {}
    /\ excludedIds = {} /\ representatives = <<>>
    /\ notInGCGChanges = NoNotInGCGChanges
    /\ NoTextRun
    /\ NoFlowRun

\* Steps 1 and 2, up to the first dialog.  getSheetByName returns null for
\* a sheet that does not exist; the catch is entered only when the lookup
\* itself throws.
applyUpdatesWithConfirmation ==
    /\ phase \in {"idle", "compared"}
    /\ \E lookupThrows \in BOOLEAN :
           IF lookupThrows
           THEN /\ dialogs' = <<"Preview Required">>
                /\ answers' = <<"OK">>
                /\ phase' = "ended"
                /\ UNCHANGED summary
           ELSE IF ~tagsFileOpens
           THEN /\ dialogs' = <<"Error">>
                /\ answers' = <<"OK">>
                /\ phase' = "ended"
                /\ UNCHANGED summary
           ELSE /\ summary' = fixedCompareWithInactiveFiltering(
                                  parseRealGCGDataWithGCGMembers(directory, tags), roster)
                /\ dialogs' = <<"Review Changes">>
                /\ answers' = <<>>
                /\ phase' = "review"
    /\ UNCHANGED <<roster, directory, tags, exportData, changes, reflects, previewSheet>>
    /\ UNCHANGED <<notInGCGVars, textVars>>

\* a flow that asks for the final confirmation whatever the first answer
answerReviewChangesAnyAnswer ==
    /\ phase = "review"
    /\ \E response \in {"YES", "NO", "CLOSE"} :
           /\ answers' = Append(answers, response)
           /\ dialogs' = Append(dialogs, "FINAL CONFIRMATION")
           /\ phase' = "final"
    /\ UNCHANGED <<roster, directory, tags, exportData, changes, reflects>>
    /\ UNCHANGED <<previewSheet, summary, notInGCGVars, textVars>>

\* The user answers 'Review Changes' (YES_NO, or the dialog is closed)
answerReviewChanges ==
    /\ phase = "review"
    /\ \E response \in {"YES", "NO", "CLOSE"} :
           /\ answers' = Append(answers, response)
           /\ IF response = "YES"
              THEN /\ dialogs' = Append(dialogs, "FINAL CONFIRMATION")
                   /\ phase' = "final"
              ELSE /\ phase' = "ended"
                   /\ UNCHANGED dialogs
    /\ UNCHANGED <<roster, directory, tags, exportData, changes, reflects>>
    /\ UNCHANGED <<previewSheet, summary, notInGCGVars, textVars>>

\* The user answers 'FINAL CONFIRMATION'; YES shows 'Processing...'
answerFinalConfirmation ==
    /\ phase = "final"
    /\ \E response \in {"YES", "NO", "CLOSE"} :
           /\ answers' = Append(answers, response)
           /\ IF response = "YES"
              THEN /\ dialogs' = Append(dialogs, "Processing...")
                   /\ phase' = "processing"
              ELSE /\ phase' = "ended"
                   /\ UNCHANGED dialogs
    /\ UNCHANGED <<roster, directory, tags, exportData, changes, reflects>>
    /\ UNCHANGED <<previewSheet, summary, notInGCGVars, textVars>>

\* applyAllUpdates threw: the 'Error' dialog, and nothing is written
updateFailed ==
    /\ phase = "processing"
    /\ ~tagsFileOpens
    /\ dialogs' = Append(dialogs, "Error")
    /\ answers' = answers \o <<"OK", "OK">>
    /\ phase' = "failed"
    /\ UNCHANGED <<roster, directory, tags, exportData, changes, reflects>>
    /\ UNCHANGED <<previewSheet, summary, notInGCGVars, textVars>>

\* Between two steps of a run another user edits the roster (relabels a
\* row, notes that a person moved away, or deletes the last row), or the
\* Drive folder changes (a newer tags export arrives, or the export is
\* removed or restored).
otherActorEdits ==
    /\ phase \in {"idle", "compared", "review", "final", "processing", "groups"}
    /\ \/ /\ \E k \in 1..Len(roster), g \in {GeneCone, GeneConeAndScott} :
                 /\ roster[k].group # g
                 /\ roster' = [roster EXCEPT ![k].group = g]
          /\ UNCHANGED <<tags, tagsFileOpens>>
       \/ /\ \E k \in 1..Len(roster) :
                 /\ roster[k].actionSteps = NoNote
                 /\ roster' = [roster EXCEPT ![k].actionSteps = NoteMovedAway]
          /\ UNCHANGED <<tags, tagsFileOpens>>
       \/ /\ roster # <<>>
          /\ roster' = SubSeq(roster, 1, Len(roster) - 1)
          /\ UNCHANGED <<tags, tagsFileOpens>>
       \/ /\ \E choice \in {t \in TagChoices : t["100"] <= 2} :
                 /\ tags' = TagsOf(choice, [p \in Persons |-> FirstAl])
                 /\ tags' # tags
          /\ UNCHANGED <<roster, tagsFileOpens>>
       \/ /\ tagsFileOpens' = ~tagsFileOpens
          /\ UNCHANGED <<roster, tags>>
    /\ UNCHANGED <<directory, exportData, changes, phase, reflects>>
    /\ UNCHANGED <<notInGCGSheet, engineCopy, unreadableTabs, excludedIds,
                   representatives, notInGCGChanges>>
    /\ UNCHANGED <<textVars, flowVars>>

ConfirmSpec ==
    ConfirmInit /\ [][\/ (phase = "idle" /\ generatePreviewReport)
                      \/ applyUpdatesWithConfirmation
                      \/ answerReviewChanges
                      \/ answerFinalConfirmation
                      \* 'Processing...' is closed and applyAllUpdates is called
                      \/ (phase = "processing" /\ applyAllUpdates)
                      \/ updateFailed
                      \/ otherActorEdits]_vars

----------------------------------------------------------------------------
(* C26: in a run of applyUpdatesWithConfirmation the roster is written     *)
(* (and 'Processing...' shown) only after 'Review Changes' and then        *)
(* 'FINAL CONFIRMATION' were both answered YES; after any other answer to  *)
(* either dialog, and after a failure while the summary is computed, the   *)
(* flow has ended and nothing was applied.                                 *)
C26_AppliedOnlyAfterBothConfirmations ==
    /\ (reflects \/ phase \in {"processing", "applied", "failed"})
           => /\ Len(dialogs) >= 2 /\ Len(answers) >= 2
              /\ dialogs[1] = "Review Changes" /\ answers[1] = "YES"
              /\ dialogs[2] = "FINAL CONFIRMATION" /\ answers[2] = "YES"
    /\ (\E i \in 1..Len(answers) :
            /\ dialogs[i] \in {"Review Changes", "FINAL CONFIRMATION"}
            /\ answers[i] # "YES")
           => /\ phase = "ended"
              /\ ~reflects
              /\ changes = NoChanges \/ previewSheet
    /\ (dialogs # <<>> /\ dialogs[1] = "Error")
           => phase = "ended" /\ ~reflects

C26_Witness ==
    /\ phase = "applied"
    /\ reflects
    /\ dialogs = <<"Review Changes", "FINAL CONFIRMATION", "Processing...">>
    /\ answers = <<"YES", "YES">>
    /\ changes.additions # <<>>
    /\ Len(roster) = 2

----------------------------------------------------------------------------
(* C27: when no 'Breeze Update Preview' sheet exists, a run of             *)
(* applyUpdatesWithConfirmation shows 'Preview Required' and ends: it      *)
(* shows no other dialog and applies nothing.                              *)
C27_NoPreviewNoConfirmation ==
    (~previewSheet /\ phase \notin {"idle", "compared"})
        => /\ dialogs = <<"Preview Required">>
           /\ phase = "ended"
           /\ ~reflects

----------------------------------------------------------------------------
(* C29: the additions, updates and removals that the confirmed run of      *)
(* applyAllUpdates acts on are those of the ChangeSet counted in the       *)
(* 'Review Changes' summary.                                               *)
C29_AppliedChangesAreTheConfirmedOnes ==
    (phase = "applied" /\ dialogs # <<>>)
        => /\ changes.additions = summary.additions
           /\ changes.updates = summary.updates
           /\ changes.removals = summary.removals

----------------------------------------------------------------------------
(* comparison-engine.js: enhancedCompareWithFamilyLogic on a snapshot the  *)
(* caller materialised with parseRealGCGDataWithFamilyInfo.  The run calls *)
(* the spreadsheet and Drive services several times (phase "groups" is the *)
(* point between the two comparisons), and the shared roster and the Drive *)
(* folder can change between two calls.                                    *)

\* lines 389-440; the active-members export of the model has no 'Family' and
\* no 'Family Role' column, so enhanceActiveMembersWithFamilyData (447-510)
\* gives every member an empty familyId and familyRole
parseRealGCGDataWithFamilyInfo(activeFile, tagsFile) ==
    LET standardData == parseRealGCGDataWithGCGMembers(activeFile, tagsFile)
        Enhanced(member) ==
            [personId       |-> member.personId,
             firstName      |-> member.firstName,
             lastName       |-> member.lastName,
             fullName       |-> member.fullName,
             isActiveMember |-> member.isActiveMember,
             isSynthetic    |-> member.isSynthetic,
             familyId       |-> NoFamily,
             familyRole     |-> NoRole]
        WithStatus(member) ==
            [personId       |-> member.personId,
             firstName      |-> member.firstName,
             lastName       |-> member.lastName,
             fullName       |-> member.fullName,
             isActiveMember |-> member.isActiveMember,
             isSynthetic    |-> member.isSynthetic,
             familyId       |-> NoFamily,
             familyRole     |-> NoRole,
             gcgStatus      |-> GcgStatus(standardData.assignments, member.personId)]
    IN [activeMembers        |->
            [i \in 1..Len(standardData.activeMembers) |->
                Enhanced(standardData.activeMembers[i])],
        membersWithGCGStatus |->
            [i \in 1..Len(standardData.activeMembers) |->
                WithStatus(standardData.activeMembers[i])],
        groups            |-> standardData.groups,
        assignments       |-> standardData.assignments,
        missingFromActive |-> standardData.missingFromActive]

\* one roster row at most; both persons are in the member directory; the
\* snapshot is the one parsed from the exports of the initial state
EngineInit ==
    /\ roster \in {rows \in Rosters : Len(rows) <= 1}
    /\ directory = DirectoryOf(Persons, [p \in Persons |-> FirstAl])
    /\ \E choice \in {t \in TagChoices : t["100"] <= 2} :
           tags = TagsOf(choice, [p \in Persons |-> FirstAl])
    /\ exportData = parseRealGCGDataWithFamilyInfo(directory, tags)
    /\ changes = NoChanges
    /\ phase = "idle"
    /\ reflects = FALSE
    /\ engineCopy \in {1, 2}
    /\ tagsFileOpens = TRUE
    /\ notInGCGSheet = <<>> /\ unreadableTabs = {}
    /\ excludedIds = {} /\ representatives = <<>>
    /\ notInGCGChanges = NoNotInGCGChanges
    /\ NoTextRun
    /\ NoFlowRun

\* a comparison that writes its ChangeSet back to the roster
enhancedCompareWithFamilyLogicWritingBack ==
    /\ phase = "idle"
    /\ changes' = fixedCompareWithInactiveFiltering(exportData, roster)
    /\ roster' = ApplyToRoster(roster, changes')
    /\ phase' = "groups"
    /\ UNCHANGED <<directory, tags, exportData, reflects>>
    /\ UNCHANGED <<notInGCGVars, textVars, flowVars>>

\* line 522: the group comparison, which reads the roster sheet
enhancedCompareWithFamilyLogic ==
    /\ phase = "idle"
    /\ changes' = fixedCompareWithInactiveFiltering(exportData, roster)
    /\ phase' = "groups"
    /\ UNCHANGED <<roster, directory, tags, exportData, reflects>>
    /\ UNCHANGED <<notInGCGVars, textVars, flowVars>>

\* line 525 follows: the 'Not in a GCG' comparison, which reads the sheet,
\* the tags export and the roster sheet at the time it is called
EngineSpec ==
    EngineInit /\ [][\/ enhancedCompareWithFamilyLogic
                     \/ (phase = "groups" /\ calculateNotInGCGChanges)
                     \/ otherActorEdits]_vars

----------------------------------------------------------------------------
(* C21: a step of the comparison (the group comparison, the 'Not in a GCG' *)
(* comparison) changes no row of the roster and no row of the 'Not in a   *)
(* GCG' sheet; only its results change.                                    *)
C21_ComparisonWritesNoStore ==
    [][(phase' # phase) => UNCHANGED <<roster, notInGCGSheet>>]_vars

C21_Witness ==
    /\ phase = "notInGCG"
    /\ roster # <<>>
    /\ changes.updates # <<>>
    /\ notInGCGChanges.additions # <<>>

----------------------------------------------------------------------------
(* C25: the results of one run reflect one roster and one tags export:     *)
(* there is a roster from which both the group changes and the inactive    *)
(* exclusions of the run follow, and a tags export from which both the     *)
(* snapshot's assignments and the administrative exclusions follow.        *)
C25_OneSnapshotPerRun ==
    phase = "notInGCG" =>
        /\ \E choice \in TagChoices :
               LET T == TagsOf(choice, [p \in Persons |-> FirstAl])
               IN /\ exportData.assignments = parseTagsSheet(T).assignments
                  /\ engineCopy = 1 =>
                         excludedIds = getExcludedPersonIds(T, tagsFileOpens, unreadableTabs)
        /\ \E R \in Rosters :
               /\ changes = fixedCompareWithInactiveFiltering(exportData, R)
               /\ representatives
                      = calculateFamilyRepresentatives(engineCopy, exportData, excludedIds, R)

----------------------------------------------------------------------------
(* Reading sheets as they are: the values of a sheet are its rows, a row   *)
(* is its cells, a cell is text (empty text for an empty cell).  The       *)
(* readers find their columns by header text, and what they do with a      *)
(* sheet that lacks a header or a column is computed here; the operators   *)
(* above model the same readers on sheets whose columns are all present.   *)

\* case-insensitive search of the first header that contains searchName;
\* 0 stands for the -1 of the code
findColumnIndex(headers, searchName) ==
    FirstIndex({i \in 1..Len(headers) :
                   /\ headers[i] # <<>>
                   /\ Includes(ToLowerCase(headers[i]), ToLowerCase(searchName))})

\* The sheets handed to the readers: a header (all columns of a roster, of an
\* active-members export or of a tag sheet, or all but one), present or
\* missing, under a title row or not, and no data row or one; or the values
\* of an empty sheet.  The inactive-members export is not in the Drive
\* folder, or is there with no member or with one.
IntakeInit ==
    /\ sheetValues \in
           LET Keep(row, cols) ==
                   LET idx == SelectSeq(<<1, 2, 3, 4, 5>>,
                                        LAMBDA c : c <= Len(row) /\ c \in cols)
                   IN [i \in 1..Len(idx) |-> row[idx[i]]]
               Sheets(header, rows, titled) ==
                   {(IF title THEN << <<<<"G", "C", "G", " ", "M", "e", "m", "b", "e", "r", "s">>>> >> ELSE <<>>)
                        \o (IF withHeader THEN <<Keep(header, cols)>> ELSE <<>>)
                        \o [i \in 1..Len(data) |-> Keep(data[i], cols)] :
                       title \in titled, withHeader \in BOOLEAN, data \in rows,
                       cols \in {1..5 \ {c} : c \in 0..Len(header)}}
           IN Sheets(<<<<"P", "e", "r", "s", "o", "n", " ", "I", "D">>, <<"F", "i", "r", "s", "t">>, <<"L", "a", "s", "t">>, <<"G", "r", "o", "u", "p">>, <<"A", "c", "t", "i", "o", "n", " ", "S", "t", "e", "p", "s">>>>,
                     { <<>>,
                       << <<<<"1", "0", "0">>, FirstAl, LastLi, BoRa, NoNote>> >>,
                       << <<<<>>, FirstAl, LastLi, BoRa, NoNote>> >>,
                       << <<<<"1", "0", "1">>, FirstAl, LastLi, GeneCone, NoNote>> >> },
                     BOOLEAN)
              \cup Sheets(<<<<"B", "r", "e", "e", "z", "e", " ", "I", "D">>, <<"F", "i", "r", "s", "t", " ", "N", "a", "m", "e">>, <<"L", "a", "s", "t", " ", "N", "a", "m", "e">>>>,
                          { <<>>, << <<<<"1", "0", "0">>, FirstAl, LastLi>> >> }, {FALSE})
              \cup Sheets(<<<<"P", "e", "r", "s", "o", "n", " ", "I", "D">>, <<"F", "i", "r", "s", "t", " ", "N", "a", "m", "e">>, <<"L", "a", "s", "t", " ", "N", "a", "m", "e">>>>,
                          { <<>>, << <<<<"1", "0", "0">>, FirstAl, LastLi>> >> }, {FALSE})
              \cup { << << <<>> >> >> }
    /\ inactiveFile \in
           { [found |-> FALSE, rows |-> <<>>],
             [found |-> TRUE, rows |-> <<>>],
             [found |-> TRUE, rows |-> <<ExportRow("101", [p \in Persons |-> FirstBo])>>] }
    /\ parsed = <<>>
    /\ text = <<>> /\ textResult = <<>>
    /\ roster = <<>>
    /\ directory = DirectoryOf({"100", "101"}, [p \in Persons |-> FirstAl])
    /\ tags = TagsOf([p \in Persons |-> IF p = "100" THEN 1 ELSE 0],
                     [p \in Persons |-> FirstAl])
    /\ exportData = parseRealGCGDataWithGCGMembers(directory, tags)
    /\ changes = NoChanges
    /\ phase = "idle"
    /\ reflects = FALSE
    /\ tagsFileOpens \in BOOLEAN
    /\ notInGCGSheet = <<>> /\ engineCopy = 1 /\ unreadableTabs = {}
    /\ excludedIds = {} /\ representatives = <<>>
    /\ notInGCGChanges = NoNotInGCGChanges
    /\ NoFlowRun

\* part_000 11-79 and 226-371 on the values of the 'GCG Members' sheet:
\* the reader throws when the header row found (or, when none is found, the
\* second row) has no 'Person ID' cell, and the comparison rethrows
compareWithSheetValues ==
    /\ phase = "idle"
    /\ parsed' =
           LET data == sheetValues
               Cell(row, col) == IF col = 0 \/ col > Len(row) THEN <<>> ELSE row[col]
               HasCell(row, word) ==
                   \E c \in 1..Len(row) :
                       row[c] # <<>> /\ Includes(ToLowerCase(row[c]), word)
               headerRowIndex ==
                   FirstIndex({i \in 1..Len(data) :
                                  /\ i <= 5
                                  /\ HasCell(data[i], <<"f", "i", "r", "s", "t">>)
                                  /\ HasCell(data[i], <<"l", "a", "s", "t">>)})
               headerAt == IF headerRowIndex # 0 THEN headerRowIndex ELSE 2
               headers  == data[headerAt]
               PersonIdOf(cell) ==
                   IF cell = <<"1", "0", "0">> THEN "100"
                   ELSE IF cell = <<"1", "0", "1">> THEN "101" ELSE NoId
               Row(k) ==
                   [personId    |-> PersonIdOf(Cell(data[k], findColumnIndex(headers, <<"P", "e", "r", "s", "o", "n", " ", "I", "D">>))),
                    firstName   |-> Cell(data[k], findColumnIndex(headers, <<"F", "i", "r", "s", "t">>)),
                    lastName    |-> Cell(data[k], findColumnIndex(headers, <<"L", "a", "s", "t">>)),
                    group       |-> Cell(data[k], findColumnIndex(headers, <<"G", "r", "o", "u", "p">>)),
                    actionSteps |-> Cell(data[k], findColumnIndex(headers, <<"A", "c", "t", "i", "o", "n", " ", "S", "t", "e", "p", "s">>))]
           IN IF Len(data) <= 1
              THEN [error   |-> <<>>,
                    changes |-> fixedCompareWithInactiveFiltering(exportData, <<>>)]
              ELSE IF findColumnIndex(headers, <<"P", "e", "r", "s", "o", "n", " ", "I", "D">>) = 0
              THEN [error   |-> <<"P", "e", "r", "s", "o", "n", " ", "I", "D", " ", "c", "o", "l", "u", "m", "n", " ", "n", "o", "t", " ", "f", "o", "u", "n", "d", ".", " ", "P", "l", "e", "a", "s", "e", " ", "e", "n", "s", "u", "r", "e", " ", "c", "o", "l", "u", "m", "n", " ", "A", " ", "h", "a", "s", " ", "P", "e", "r", "s", "o", "n", " ", "I", "D", " ", "h", "e", "a", "d", "e", "r", ".">>,
                    changes |-> NoChanges]
              ELSE [error   |-> <<>>,
                    changes |->
                        fixedCompareWithInactiveFiltering(
                            exportData,
                            [k \in 1..(Len(data) - headerAt) |-> Row(headerAt + k)])]
    /\ phase' = "comparedSheet"
    /\ UNCHANGED <<roster, directory, tags, exportData, changes, reflects>>
    /\ UNCHANGED <<notInGCGVars, flowVars, text, textResult, sheetValues, inactiveFile>>

\* google-sheets-parser.js 80-163 on the values of the first tab of the
\* active-members export
parseActiveMembersSheetValues ==
    /\ phase = "idle"
    /\ parsed' =
           LET data == sheetValues
               headers == data[1]
               Cell(row, col) == IF col = 0 \/ col > Len(row) THEN <<>> ELSE row[col]
               PersonIdOf(cell) ==
                   IF cell = <<"1", "0", "0">> THEN "100"
                   ELSE IF cell = <<"1", "0", "1">> THEN "101" ELSE NoId
               Row(k) ==
                   [personId  |-> PersonIdOf(Cell(data[k], findColumnIndex(headers, <<"B", "r", "e", "e", "z", "e", " ", "I", "D">>))),
                    firstName |-> Cell(data[k], findColumnIndex(headers, <<"F", "i", "r", "s", "t", " ", "N", "a", "m", "e">>)),
                    lastName  |-> Cell(data[k], findColumnIndex(headers, <<"L", "a", "s", "t", " ", "N", "a", "m", "e">>))]
           IN IF Len(data) = 0
              THEN [error   |-> <<"N", "o", " ", "d", "a", "t", "a", " ", "f", "o", "u", "n", "d", " ", "i", "n", " ", "A", "c", "t", "i", "v", "e", " ", "M", "e", "m", "b", "e", "r", "s", " ", "s", "h", "e", "e", "t">>,
                    members |-> <<>>]
              ELSE IF \/ findColumnIndex(headers, <<"B", "r", "e", "e", "z", "e", " ", "I", "D">>) = 0
                      \/ findColumnIndex(headers, <<"F", "i", "r", "s", "t", " ", "N", "a", "m", "e">>) = 0
                      \/ findColumnIndex(headers, <<"L", "a", "s", "t", " ", "N", "a", "m", "e">>) = 0
              THEN [error   |-> <<"R", "e", "q", "u", "i", "r", "e", "d", " ", "c", "o", "l", "u", "m", "n", "s", " ", "(", "B", "r", "e", "e", "z", "e", " ", "I", "D", ",", " ", "F", "i", "r", "s", "t", " ", "N", "a", "m", "e", ",", " ", "L", "a", "s", "t", " ", "N", "a", "m", "e", ")", " ", "n", "o", "t", " ", "f", "o", "u", "n", "d">>,
                    members |-> <<>>]
              ELSE [error   |-> <<>>,
                    members |->
                        parseActiveMembersSheet([k \in 1..(Len(data) - 1) |-> Row(k + 1)])]
    /\ phase' = "parsedActive"
    /\ UNCHANGED <<roster, directory, tags, exportData, changes, reflects>>
    /\ UNCHANGED <<notInGCGVars, flowVars, text, textResult, sheetValues, inactiveFile>>

\* google-sheets-parser.js 232-283 on the values of a tab of the tags export:
\* without a 'Person ID' header no row is read and the group is empty
parseGCGSheetValues ==
    /\ phase = "idle"
    /\ parsed' =
           LET data == sheetValues
               headers == data[1]
               Cell(row, col) == IF col = 0 \/ col > Len(row) THEN <<>> ELSE row[col]
               PersonIdOf(cell) ==
                   IF cell = <<"1", "0", "0">> THEN "100"
                   ELSE IF cell = <<"1", "0", "1">> THEN "101" ELSE NoId
               Row(k) ==
                   [personId  |-> PersonIdOf(Cell(data[k], findColumnIndex(headers, <<"P", "e", "r", "s", "o", "n", " ", "I", "D">>))),
                    firstName |-> Cell(data[k], findColumnIndex(headers, <<"F", "i", "r", "s", "t", " ", "N", "a", "m", "e">>)),
                    lastName  |-> Cell(data[k], findColumnIndex(headers, <<"L", "a", "s", "t", " ", "N", "a", "m", "e">>))]
           IN IF Len(data) = 0
              THEN [error |-> <<>>, members |-> <<>>]
              ELSE [error   |-> <<>>,
                    members |->
                        parseGCGSheet(
                            [name |-> TabGeneCone,
                             rows |-> [k \in 1..(Len(data) - 1) |-> Row(k + 1)]]).members]
    /\ phase' = "parsedGCG"
    /\ UNCHANGED <<roster, directory, tags, exportData, changes, reflects>>
    /\ UNCHANGED <<notInGCGVars, flowVars, text, textResult, sheetValues, inactiveFile>>

\* a parser in which a missing inactive-members export is an error
parseRealGCGDataWithInactiveMembersStrict ==
    /\ phase = "idle"
    /\ parsed' =
           IF ~tagsFileOpens \/ ~inactiveFile.found
           THEN [error |-> <<"N", "o", " ", "f", "i", "l", "e", "s", " ", "f", "o", "u", "n", "d", " ", "m", "a", "t", "c", "h", "i", "n", "g", " ", "p", "a", "t", "t", "e", "r", "n">>, data |-> NoExportData]
           ELSE LET activeMembers   == parseActiveMembersSheet(directory)
                    inactiveMembers == parseActiveMembersSheet(inactiveFile.rows)
                    tagsResult      == parseTagsSheet(tags)
                IN [error |-> <<>>,
                    data  |->
                        [activeMembers   |-> activeMembers,
                         inactiveMembers |-> inactiveMembers,
                         allMembers      |-> activeMembers \o inactiveMembers,
                         groups          |-> tagsResult.groups,
                         assignments     |-> tagsResult.assignments,
                         summary         |->
                             [totalActiveMembers   |-> Len(activeMembers),
                              totalInactiveMembers |-> Len(inactiveMembers),
                              totalMembers |-> Len(activeMembers) + Len(inactiveMembers)]]]
    /\ phase' = "parsedFull"
    /\ UNCHANGED <<roster, directory, tags, exportData, changes, reflects>>
    /\ UNCHANGED <<notInGCGVars, flowVars, text, textResult, sheetValues, inactiveFile>>

\* part_001 184-229: findLatestFile throws when no file matches (62-69,
\* 98-100); for the inactive-members export the inner catch keeps the empty
\* result, for the two other exports the outer catch rethrows.
\* parseInactiveMembersSheet (inactive_member_enhancement.md 100-181) reads
\* the rows that have a Breeze ID, as parseActiveMembersSheet does.
parseRealGCGDataWithInactiveMembers ==
    /\ phase = "idle"
    /\ parsed' =
           IF ~tagsFileOpens
           THEN [error |-> <<"N", "o", " ", "f", "i", "l", "e", "s", " ", "f", "o", "u", "n", "d", " ", "m", "a", "t", "c", "h", "i", "n", "g", " ", "p", "a", "t", "t", "e", "r", "n">>, data |-> NoExportData]
           ELSE LET activeMembers   == parseActiveMembersSheet(directory)
                    inactiveMembers ==
                        IF inactiveFile.found
                        THEN parseActiveMembersSheet(inactiveFile.rows)
                        ELSE <<>>
                    tagsResult      == parseTagsSheet(tags)
                IN [error |-> <<>>,
                    data  |->
                        [activeMembers   |-> activeMembers,
                         inactiveMembers |-> inactiveMembers,
                         allMembers      |-> activeMembers \o inactiveMembers,
                         groups          |-> tagsResult.groups,
                         assignments     |-> tagsResult.assignments,
                         summary         |->
                             [totalActiveMembers   |-> Len(activeMembers),
                              totalInactiveMembers |-> Len(inactiveMembers),
                              totalMembers |-> Len(activeMembers) + Len(inactiveMembers)]]]
    /\ phase' = "parsedFull"
    /\ UNCHANGED <<roster, directory, tags, exportData, changes, reflects>>
    /\ UNCHANGED <<notInGCGVars, flowVars, text, textResult, sheetValues, inactiveFile>>

IntakeSpec ==
    IntakeInit /\ [][\/ compareWithSheetValues
                     \/ parseActiveMembersSheetValues
                     \/ parseGCGSheetValues
                     \/ parseRealGCGDataWithInactiveMembers]_vars

----------------------------------------------------------------------------
(* C22: when the values of the roster sheet have no data row, no header    *)
(* row (no row among the first five has a 'first' and a 'last' cell) or no *)
(* 'Person ID' column in the header row, the comparison raises no error    *)
(* and returns no removal and no update.                                   *)
C22_MalformedRosterYieldsNoError ==
    phase = "comparedSheet" =>
        LET HasCell(row, word) ==
                \E c \in 1..Len(row) :
                    row[c] # <<>> /\ Includes(ToLowerCase(row[c]), word)
            headerRows ==
                {i \in 1..Len(sheetValues) :
                    /\ i <= 5
                    /\ HasCell(sheetValues[i], <<"f", "i", "r", "s", "t">>)
                    /\ HasCell(sheetValues[i], <<"l", "a", "s", "t">>)}
            noDataRows ==
                \/ Len(sheetValues) <= 1
                \/ \E i \in headerRows : i = Len(sheetValues) /\ \A j \in headerRows : i <= j
            noIdColumn ==
                \E i \in headerRows :
                    /\ \A j \in headerRows : i <= j
                    /\ ~HasCell(sheetValues[i], <<"p", "e", "r", "s", "o", "n", " ", "i", "d">>)
        IN (noDataRows \/ headerRows = {} \/ noIdColumn)
               => /\ parsed.error = <<>>
                  /\ parsed.changes.removals = <<>>
                  /\ parsed.changes.updates = <<>>

----------------------------------------------------------------------------
(* C23: when the header row of the active-members export lacks 'Breeze     *)
(* ID', 'First Name' or 'Last Name', the parse raises an error whose text  *)
(* names the missing columns and no other required column, and returns no  *)
(* member; when the header row of a tag sheet lacks 'Person ID', the parse *)
(* raises an error that names 'Person ID'.                                 *)
C23_MissingIdentityColumnIsNamed ==
    LET headers == IF sheetValues = <<>> THEN <<>> ELSE sheetValues[1]
        required == {<<"B", "r", "e", "e", "z", "e", " ", "I", "D">>, <<"F", "i", "r", "s", "t", " ", "N", "a", "m", "e">>, <<"L", "a", "s", "t", " ", "N", "a", "m", "e">>}
        missing == {c \in required : findColumnIndex(headers, c) = 0}
    IN /\ (phase = "parsedActive" /\ sheetValues # <<>> /\ missing # {})
              => /\ parsed.error # <<>>
                 /\ parsed.members = <<>>
                 /\ \A c \in required : Includes(parsed.error, c) <=> c \in missing
       /\ (phase = "parsedGCG" /\ sheetValues # <<>> /\ findColumnIndex(headers, <<"P", "e", "r", "s", "o", "n", " ", "I", "D">>) = 0)
              => /\ parsed.error # <<>>
                 /\ Includes(parsed.error, <<"P", "e", "r", "s", "o", "n", " ", "I", "D">>)

----------------------------------------------------------------------------
(* C24: when the inactive-members export is not found (and the two other   *)
(* exports are), parseRealGCGDataWithInactiveMembers raises no error: its  *)
(* inactiveMembers are empty, totalInactiveMembers is 0, and activeMembers *)
(* and assignments are those parsed from the active-members export and     *)
(* from the tags export.                                                   *)
C24_MissingInactiveExportIsEmpty ==
    (phase = "parsedFull" /\ ~inactiveFile.found /\ tagsFileOpens)
        => /\ parsed.error = <<>>
           /\ parsed.data.inactiveMembers = <<>>
           /\ parsed.data.summary.totalInactiveMembers = 0
           /\ parsed.data.allMembers = parsed.data.activeMembers
           /\ parsed.data.activeMembers = parseActiveMembersSheet(directory)
           /\ parsed.data.assignments = parseTagsSheet(tags).assignments

C24_Witness ==
    /\ phase = "parsedFull"
    /\ ~inactiveFile.found
    /\ tagsFileOpens
    /\ parsed.error = <<>>
    /\ Len(parsed.data.activeMembers) = 2
    /\ DOMAIN parsed.data.assignments = {"100"}
    /\ parsed.data.inactiveMembers = <<>>

====
